---- MODULE Spec2Model ----
(***************************************************************************)
(* The job board's handlers over the relational store:                     *)
(* createJobApplication with its three scorers, updateApplicationStatus    *)
(* and bulkUpdateApplicationStatus, the job queries, updateJobRequisition  *)
(* and publishJobRequisition, createUser and the notification handlers.    *)
(*                                                                         *)
(* A text is a sequence of one-character strings; a nullable column or an  *)
(* optional input field is None or Some(v); a timestamp is Some(clock).    *)
(***************************************************************************)
EXTENDS Integers, Sequences, FiniteSets, TLC

VARIABLES
    users,      \* usersTable: id -> row
    jobs,       \* jobRequisitionsTable: id -> row
    vendors,    \* vendorsTable: id -> row
    apps,       \* jobApplicationsTable: sequence of rows, id = position (serial)
    clock,      \* the value new Date() / now() returns
    ret,        \* the last status update or score call: its name, its result
                \* and the rows or arguments it concerns
    calls,      \* the call of each caller: its position in the handler, its
                \* input and, once settled, what it returned
    notifications   \* notificationsTable: sequence of rows, id = position (serial)

vars == <<users, jobs, vendors, apps, clock, ret, calls, notifications>>

-----------------------------------------------------------------------------
(* Bounds of the model *)

MaxApps == 2        \* rows the application table may hold in Spec and SpecStatus
MaxClock == 2       \* values the clock takes
NumProcs == 2       \* concurrent calls in SpecConc, SpecUsers, SpecPublishConc
MaxUsers == 3       \* rows the user table may hold in SpecUsers
MaxNotifications == 3   \* rows the notification table may hold in SpecNotify

-----------------------------------------------------------------------------
(* Nullable values and JavaScript truthiness *)

None == <<>>
Some(v) == <<v>>
IsSome(o) == Len(o) = 1
IsNull(o) == Len(o) = 0

\* `if (x)` for a number | null | undefined: null, undefined and 0 are falsy
TruthyNum(o) == IsSome(o) /\ o[1] # 0
\* `if (x)` for a string | null | undefined: null, undefined and '' are falsy
TruthyStr(o) == IsSome(o) /\ Len(o[1]) > 0
\* `x || null` for a number
NumOrNull(o) == IF TruthyNum(o) THEN o ELSE None
\* `x || null` for a string
StrOrNull(o) == IF TruthyStr(o) THEN o ELSE None
\* `(x as string[]) || []`
OrEmpty(o) == IF IsSome(o) THEN o[1] ELSE <<>>

-----------------------------------------------------------------------------
(* String.prototype.toLowerCase, trim, includes *)

LowerChar(c) ==
    CASE c = "A" -> "a"
      [] c = "B" -> "b"
      [] c = "C" -> "c"
      [] OTHER -> c

toLowerCase(s) == [i \in 1..Len(s) |-> LowerChar(s[i])]

IsSpace(c) == c = " "

RECURSIVE trimStart(_)
trimStart(s) ==
    IF Len(s) > 0 /\ IsSpace(s[1]) THEN trimStart(Tail(s)) ELSE s

RECURSIVE trimEnd(_)
trimEnd(s) ==
    IF Len(s) > 0 /\ IsSpace(s[Len(s)]) THEN trimEnd(SubSeq(s, 1, Len(s) - 1)) ELSE s

trim(s) == trimEnd(trimStart(s))

\* h.includes(n): n occurs in h as a contiguous run; '' occurs in every string
includes(h, n) ==
    \E i \in 1..(Len(h) - Len(n) + 1) : SubSeq(h, i, i + Len(n) - 1) = n

\* Array.prototype.includes on a list of enum values
arrayIncludes(list, x) == \E i \in 1..Len(list) : list[i] = x

-----------------------------------------------------------------------------
(* Exact fractions, for the skills percentage (matching / total) * 100 *)

Frac(n, d) == [num |-> n, den |-> d]
FracLE(a, b) == a.num * b.den <= b.num * a.den
FracEq(a, b) == a.num * b.den = b.num * a.den
\* Math.min(Math.max(p, 0), 100)
ClampFrac(p) ==
    IF FracLE(p, Frac(0, 1)) THEN Frac(0, 1)
    ELSE IF FracLE(Frac(100, 1), p) THEN Frac(100, 1)
    ELSE p
\* Math.min(Math.max(score, 0), 100)
ClampInt(score) ==
    IF score < 0 THEN 0 ELSE IF score > 100 THEN 100 ELSE score
\* Math.round(q): the nearest integer, halves towards +infinity (q >= 0 here)
RoundFrac(q) == (2 * q.num + q.den) \div (2 * q.den)
\* a number written to a numeric(5,2) column and read back with parseFloat,
\* in hundredths
Numeric52(q) == RoundFrac(Frac(100 * q.num, q.den))

-----------------------------------------------------------------------------
(* The scorers *)

\* the candidate's skills, lower-cased and trimmed
UserSkills(user) ==
    LET raw == OrEmpty(user.skills)
    IN  [i \in 1..Len(raw) |-> trim(toLowerCase(raw[i]))]

\* `${job.requirements} ${job.description}`.toLowerCase()
JobText(job) == toLowerCase(job.requirements \o <<" ">> \o job.description)

\* the skills the loop counts: `if (skill && jobText.includes(skill))`
MatchingSkills(user, job) ==
    LET userSkills == UserSkills(user)
    IN  Cardinality({i \in 1..Len(userSkills) :
            Len(userSkills[i]) > 0 /\ includes(JobText(job), userSkills[i])})

calculateSkillsMatch(userId, jobId) ==
    IF userId \notin DOMAIN users \/ jobId \notin DOMAIN jobs THEN Frac(0, 1)
    ELSE LET user == users[userId]
             job == jobs[jobId]
             userSkills == UserSkills(user)
         IN  IF Len(userSkills) = 0 THEN Frac(0, 1)
             ELSE ClampFrac(Frac(MatchingSkills(user, job) * 100, Len(userSkills)))

\* Location matching (20 points max)
LocationPoints(user, job) ==
    LET userLocation == IF TruthyStr(user.location)
                        THEN toLowerCase(user.location[1]) ELSE <<>>
        jobLocation == toLowerCase(job.location)
        preferredLocations == OrEmpty(user.preferred_locations)
    IN  IF job.remote_allowed THEN 20
        ELSE IF Len(userLocation) > 0 /\ Len(jobLocation) > 0
                /\ includes(userLocation, jobLocation) THEN 20
        ELSE IF \E i \in 1..Len(preferredLocations) :
                    includes(toLowerCase(preferredLocations[i]), jobLocation) THEN 15
        ELSE 0

\* the bands with strict comparisons
ExperiencePointsStrict(user) ==
    LET userExperience == IF TruthyNum(user.experience_years)
                          THEN user.experience_years[1] ELSE 0
    IN  IF userExperience > 5 THEN 30
        ELSE IF userExperience > 2 THEN 20
        ELSE IF userExperience > 1 THEN 10
        ELSE 0

\* Experience matching (30 points max): `user.experience_years || 0`
ExperiencePoints(user) ==
    LET userExperience == IF TruthyNum(user.experience_years)
                          THEN user.experience_years[1] ELSE 0
    IN  IF userExperience >= 5 THEN 30
        ELSE IF userExperience >= 2 THEN 20
        ELSE IF userExperience >= 1 THEN 10
        ELSE 0

\* Skills matching (40 points max): Math.round(skillsMatchScore * 0.4)
SkillsPoints(userId, jobId) ==
    LET p == calculateSkillsMatch(userId, jobId)
    IN  RoundFrac(Frac(4 * p.num, 10 * p.den))

\* Profile completeness bonus (10 points max)
CompletenessBonus(user) ==
      (IF TruthyStr(user.resume_url) THEN 3 ELSE 0)
    + (IF TruthyStr(user.linkedin_url) THEN 2 ELSE 0)
    + (IF TruthyStr(user.portfolio_url) THEN 2 ELSE 0)
    + (IF Len(OrEmpty(user.skills)) > 0 THEN 3 ELSE 0)

\* the score before the final Math.min(Math.max(score, 0), 100)
EligibilitySum(userId, jobId) ==
      LocationPoints(users[userId], jobs[jobId])
    + ExperiencePoints(users[userId])
    + SkillsPoints(userId, jobId)
    + CompletenessBonus(users[userId])

\* a scorer that checks only that the candidate exists and scores the
\* candidate's own fields when the job is missing
calculateEligibilityScoreUserOnly(userId, jobId) ==
    IF userId \notin DOMAIN users THEN 0
    ELSE IF jobId \notin DOMAIN jobs
    THEN ClampInt(  (IF TruthyNum(users[userId].experience_years) THEN 10 ELSE 0)
                  + (IF TruthyStr(users[userId].resume_url) THEN 3 ELSE 0))
    ELSE ClampInt(  (IF jobs[jobId].remote_allowed THEN 20 ELSE 0)
                  + (IF TruthyNum(users[userId].experience_years) THEN 10 ELSE 0)
                  + (IF TruthyStr(users[userId].resume_url) THEN 3 ELSE 0))

calculateEligibilityScore(userId, jobId) ==
    IF userId \notin DOMAIN users \/ jobId \notin DOMAIN jobs THEN 0
    ELSE ClampInt(EligibilitySum(userId, jobId))

\* a scorer that counts experience_years by truthiness, so that 0 is not set
calculateReadinessScoreTruthyExperience(userId) ==
    IF userId \notin DOMAIN users THEN 0
    ELSE LET user == users[userId]
         IN  ClampInt(
                   (IF Len(user.first_name) > 0 /\ Len(user.last_name) > 0 THEN 10 ELSE 0)
                 + (IF Len(user.email) > 0 THEN 10 ELSE 0)
                 + (IF TruthyStr(user.phone) THEN 10 ELSE 0)
                 + (IF TruthyStr(user.resume_url) THEN 20 ELSE 0)
                 + (IF TruthyNum(user.experience_years) THEN 10 ELSE 0)
                 + (IF TruthyStr(user.location) THEN 10 ELSE 0)
                 + (IF Len(OrEmpty(user.skills)) > 0 THEN 10 ELSE 0)
                 + (IF Len(OrEmpty(user.preferred_locations)) > 0 THEN 5 ELSE 0)
                 + (IF TruthyStr(user.linkedin_url) THEN 5 ELSE 0)
                 + (IF TruthyStr(user.portfolio_url) THEN 5 ELSE 0))

calculateReadinessScore(userId) ==
    IF userId \notin DOMAIN users THEN 0
    ELSE LET user == users[userId]
             score ==
                   (IF Len(user.first_name) > 0 /\ Len(user.last_name) > 0 THEN 10 ELSE 0)
                 + (IF Len(user.email) > 0 THEN 10 ELSE 0)
                 + (IF TruthyStr(user.phone) THEN 10 ELSE 0)
                 + (IF TruthyStr(user.resume_url) THEN 20 ELSE 0)
                 + (IF IsSome(user.experience_years) THEN 10 ELSE 0)
                 + (IF TruthyStr(user.location) THEN 10 ELSE 0)
                 + (IF Len(OrEmpty(user.skills)) > 0 THEN 10 ELSE 0)
                 + (IF Len(OrEmpty(user.preferred_locations)) > 0 THEN 5 ELSE 0)
                 + (IF TruthyStr(user.linkedin_url) THEN 5 ELSE 0)
                 + (IF TruthyStr(user.portfolio_url) THEN 5 ELSE 0)
         IN  ClampInt(score)

-----------------------------------------------------------------------------
(* The store *)

ApplicationPaths == {"direct", "vendor", "consent_based"}
ApplicationStatuses ==
    {"pending", "reviewing", "interviewed", "rejected", "accepted", "withdrawn"}

\* the two candidates of the store: a populated profile and a minimal one
InitUsers ==
    1 :> [ email |-> <<"a">>, first_name |-> <<"a">>, last_name |-> <<"b">>,
           phone |-> Some(<<"c">>), resume_url |-> Some(<<"a">>),
           linkedin_url |-> Some(<<"b">>), portfolio_url |-> None,
           location |-> Some(<<"A", "b">>),
           preferred_locations |-> Some(<< <<"A", "b">>, <<"c">> >>),
           skills |-> Some(<< <<"A">>, <<"c", " ">>, <<"b", "b">> >>),
           experience_years |-> Some(3) ]
    @@
    2 :> [ email |-> <<"b">>, first_name |-> <<"b">>, last_name |-> <<"c">>,
           phone |-> None, resume_url |-> None,
           linkedin_url |-> None, portfolio_url |-> None,
           location |-> None,
           preferred_locations |-> Some(<<>>),
           skills |-> Some(<<>>),
           experience_years |-> None ]

\* the two jobs of the store
InitJobs ==
    1 :> [ title |-> <<"a">>, description |-> <<"b", "a">>,
           requirements |-> <<"a">>, responsibilities |-> <<"c">>,
           location |-> <<"a", "b">>, remote_allowed |-> FALSE,
           allowed_application_paths |-> <<"direct", "vendor">>,
           status |-> "active" ]
    @@
    2 :> [ title |-> <<"b">>, description |-> <<"c">>,
           requirements |-> <<"c">>, responsibilities |-> <<"c">>,
           location |-> <<"c">>, remote_allowed |-> TRUE,
           allowed_application_paths |-> <<"consent_based">>,
           status |-> "active" ]

\* an active and a deactivated vendor
InitVendors ==
    1 :> [is_active |-> TRUE] @@ 2 :> [is_active |-> FALSE]

NoRet == [op |-> "none", result |-> "none", value |-> None]

\* db.select().from(jobRequisitionsTable).where(eq(id, jobId))
JobResults(jobId) ==
    IF jobId \in DOMAIN jobs THEN <<jobs[jobId]>> ELSE <<>>

\* db.select().from(usersTable).where(eq(id, userId))
UserResults(userId) ==
    IF userId \in DOMAIN users THEN <<users[userId]>> ELSE <<>>

\* db.select().from(vendorsTable).where(and(eq(id, vendorId), eq(is_active, true)))
VendorResults(vendorId) ==
    IF vendorId \in DOMAIN vendors /\ vendors[vendorId].is_active
    THEN <<vendors[vendorId]>> ELSE <<>>

\* the same query with the two ids compared against the wrong columns
ExistingApplicationsSwappedIds(jobId, userId) ==
    SelectSeq(apps, LAMBDA a : a.job_id = userId /\ a.user_id = jobId)

\* db.select().from(jobApplicationsTable)
\*   .where(and(eq(job_id, jobId), eq(user_id, userId)))
ExistingApplications(jobId, userId) ==
    SelectSeq(apps, LAMBDA a : a.job_id = jobId /\ a.user_id = userId)

\* a check that only asks whether the job allows any path at all
PathAllowedAnyPath(job, path) == Len(job.allowed_application_paths) > 0

\* allowedPaths.includes(input.application_path)
PathAllowed(job, path) == arrayIncludes(job.allowed_application_paths, path)

\* a timestamp taken whether or not consent was given
ConsentTimestampAlways(consentGiven) == Some(clock)

\* const consentTimestamp = input.consent_given ? new Date() : null
ConsentTimestamp(consentGiven) == IF consentGiven THEN Some(clock) ELSE None

\* a row that does not start in the column's default status
NewApplicationReviewing(input, eligibilityScore, readinessScore, skillsMatchPercentage) ==
    [ id |-> Len(apps) + 1,
      job_id |-> input.job_id,
      user_id |-> input.user_id,
      application_path |-> input.application_path,
      vendor_id |-> NumOrNull(input.vendor_id),
      cover_letter |-> StrOrNull(input.cover_letter),
      resume_url |-> StrOrNull(input.resume_url),
      custom_responses |-> input.custom_responses,
      eligibility_score |-> Numeric52(Frac(eligibilityScore, 1)),
      readiness_score |-> Numeric52(Frac(readinessScore, 1)),
      skills_match_percentage |-> Numeric52(skillsMatchPercentage),
      status |-> "reviewing",
      applied_at |-> Some(clock),
      last_updated |-> Some(clock),
      consent_given |-> input.consent_given,
      consent_timestamp |-> ConsentTimestamp(input.consent_given) ]

\* the row db.insert(jobApplicationsTable).values({...}) adds; id, status,
\* applied_at and last_updated are the columns' defaults
NewApplication(input, eligibilityScore, readinessScore, skillsMatchPercentage) ==
    [ id |-> Len(apps) + 1,
      job_id |-> input.job_id,
      user_id |-> input.user_id,
      application_path |-> input.application_path,
      vendor_id |-> NumOrNull(input.vendor_id),
      cover_letter |-> StrOrNull(input.cover_letter),
      resume_url |-> StrOrNull(input.resume_url),
      custom_responses |-> input.custom_responses,
      eligibility_score |-> Numeric52(Frac(eligibilityScore, 1)),
      readiness_score |-> Numeric52(Frac(readinessScore, 1)),
      skills_match_percentage |-> Numeric52(skillsMatchPercentage),
      status |-> "pending",
      applied_at |-> Some(clock),
      last_updated |-> Some(clock),
      consent_given |-> input.consent_given,
      consent_timestamp |-> ConsentTimestamp(input.consent_given) ]

-----------------------------------------------------------------------------
(* A createJobApplication call: begun by a caller, run by the handler;      *)
(* once settled it holds the application or the error the caller receives   *)

IdleCall ==
    [ pc |-> "idle", input |-> None, job |-> None,
      eligibilityScore |-> 0, readinessScore |-> 0,
      skillsMatchPercentage |-> Frac(0, 1),
      result |-> "none", application |-> None ]

\* the call throws: the catch block logs and rethrows
Throw(p, message) ==
    calls' = [calls EXCEPT ![p].pc = "done", ![p].result = message]

\* a caller p that has no call in flight calls createJobApplication(input)
Begin(p, input) ==
    /\ calls[p].pc = "idle"
    /\ calls' = [calls EXCEPT ![p] = [IdleCall EXCEPT !.pc = "selectJob",
                                                      !.input = Some(input)]]
    /\ UNCHANGED <<notifications, users, jobs, vendors, apps, clock, ret>>

\* the promise has settled and the caller has taken the application or the
\* error: the caller is free to call again
Return(p) ==
    /\ calls[p].pc = "done"
    /\ calls' = [calls EXCEPT ![p] = IdleCall]
    /\ UNCHANGED <<notifications, users, jobs, vendors, apps, clock, ret>>

\* no caller has a call in flight
NoCallInFlight == \A p \in DOMAIN calls : calls[p].pc = "idle"

-----------------------------------------------------------------------------
(* createJobApplication, run to completion against the store *)

\* the checks with the path check moved before the duplicate check
AdmissionErrorPathFirst(input) ==
    IF Len(JobResults(input.job_id)) = 0 THEN "Job not found"
    ELSE IF Len(UserResults(input.user_id)) = 0 THEN "User not found"
    ELSE IF TruthyNum(input.vendor_id) /\ Len(VendorResults(input.vendor_id[1])) = 0
        THEN "Vendor not found or inactive"
    ELSE IF ~PathAllowed(JobResults(input.job_id)[1], input.application_path)
        THEN "Application path not allowed for this job"
    ELSE IF Len(ExistingApplications(input.job_id, input.user_id)) > 0
        THEN "Application already exists for this job"
    ELSE "ok"

\* the first check that throws, or "ok"
AdmissionError(input) ==
    IF Len(JobResults(input.job_id)) = 0 THEN "Job not found"
    ELSE IF Len(UserResults(input.user_id)) = 0 THEN "User not found"
    ELSE IF TruthyNum(input.vendor_id) /\ Len(VendorResults(input.vendor_id[1])) = 0
        THEN "Vendor not found or inactive"
    ELSE IF Len(ExistingApplications(input.job_id, input.user_id)) > 0
        THEN "Application already exists for this job"
    ELSE IF ~PathAllowed(JobResults(input.job_id)[1], input.application_path)
        THEN "Application path not allowed for this job"
    ELSE "ok"

\* the whole handler, for the call p has begun
createJobApplication(p) ==
    /\ calls[p].pc = "selectJob"
    /\ LET input == calls[p].input[1]
           err == AdmissionError(input)
           application ==
                NewApplication(input,
                    calculateEligibilityScore(input.user_id, input.job_id),
                    calculateReadinessScore(input.user_id),
                    calculateSkillsMatch(input.user_id, input.job_id))
       IN  /\ err = "ok" => Len(apps) < MaxApps
           /\ IF err = "ok"
              THEN /\ apps' = Append(apps, application)
                   /\ calls' = [calls EXCEPT ![p].pc = "done", ![p].result = "ok",
                                             ![p].application = Some(application)]
              ELSE /\ apps' = apps
                   /\ Throw(p, err)
    /\ UNCHANGED <<notifications, users, jobs, vendors, clock, ret>>

-----------------------------------------------------------------------------
(* updateApplicationStatus and bulkUpdateApplicationStatus *)

\* a status update that leaves a rejected, accepted or withdrawn row alone
SetStatusUnlessFinal(table, id, status) ==
    [i \in 1..Len(table) |->
        IF table[i].id = id
            /\ table[i].status \notin {"rejected", "accepted", "withdrawn"}
        THEN [table[i] EXCEPT !.status = status, !.last_updated = Some(clock)]
        ELSE table[i]]

\* db.update(jobApplicationsTable).set({status, last_updated: new Date()})
\*   .where(eq(id, id)): the table after the statement
SetStatus(table, id, status) ==
    [i \in 1..Len(table) |->
        IF table[i].id = id
        THEN [table[i] EXCEPT !.status = status, !.last_updated = Some(clock)]
        ELSE table[i]]

updateApplicationStatus(input) ==
    /\ apps' = SetStatus(apps, input.id, input.status)
    /\ ret' = [op |-> "updateApplicationStatus",
               result |-> IF \E i \in 1..Len(apps) : apps[i].id = input.id
                          THEN "ok" ELSE "null",
               value |-> SelectSeq(apps', LAMBDA a : a.id = input.id),
               input |-> input]
    /\ UNCHANGED <<notifications, users, jobs, vendors, clock, calls>>

\* the updates of applicationIds as one unit that a missing id aborts
BulkSetStatusAbortOnMissing(table, applicationIds, status) ==
    LET stored == {table[i].id : i \in 1..Len(table)}
        asked == {applicationIds[k] : k \in 1..Len(applicationIds)}
    IN  IF ~(asked \subseteq stored) THEN table
        ELSE [i \in 1..Len(table) |->
                IF table[i].id \in asked
                THEN [table[i] EXCEPT !.status = status,
                                      !.last_updated = Some(clock)]
                ELSE table[i]]

\* the table after the updates of applicationIds, one statement per id
RECURSIVE BulkSetStatus(_, _, _)
BulkSetStatus(table, applicationIds, status) ==
    IF Len(applicationIds) = 0 THEN table
    ELSE BulkSetStatus(SetStatus(table, Head(applicationIds), status),
                       Tail(applicationIds), status)

\* updates.flat(): the ids of the rows the statements returned
BulkUpdated(applicationIds) ==
    SelectSeq(applicationIds, LAMBDA id : \E i \in 1..Len(apps) : apps[i].id = id)

bulkUpdateApplicationStatus(applicationIds, status) ==
    /\ apps' = IF Len(applicationIds) = 0 THEN apps
               ELSE BulkSetStatus(apps, applicationIds, status)
    /\ ret' = [op |-> "bulkUpdateApplicationStatus",
               result |-> "ok",
               value |-> [k \in 1..Len(BulkUpdated(applicationIds)) |->
                            apps'[BulkUpdated(applicationIds)[k]]],
               input |-> <<applicationIds, status>>]
    /\ UNCHANGED <<notifications, users, jobs, vendors, clock, calls>>

\* time passes between two calls
Tick ==
    /\ clock < MaxClock
    /\ clock' = clock + 1
    /\ UNCHANGED <<notifications, users, jobs, vendors, apps, ret, calls>>

-----------------------------------------------------------------------------
(* The calls the specifications make *)

\* ids the callers pass: every stored id and one that is not stored
JobIdInputs == DOMAIN InitJobs \cup {3}
UserIdInputs == DOMAIN InitUsers \cup {3}
\* absent, 0, the active vendor, the deactivated vendor, an unknown vendor
VendorIdInputs == {None, Some(0), Some(1), Some(2), Some(3)}
\* consent_given, cover_letter, resume_url and custom_responses: a call that
\* gives consent and nothing else, and one that fills the other fields
OtherFieldInputs ==
    { [consent_given |-> TRUE, cover_letter |-> Some(<<>>), resume_url |-> None,
       custom_responses |-> <<>>],
      [consent_given |-> FALSE, cover_letter |-> Some(<<"a">>),
       resume_url |-> Some(<<"a">>), custom_responses |-> << <<"a", "b">> >>] }

CreateJobApplicationInput(jobId, userId, path, vendorId, other) ==
    [ job_id |-> jobId, user_id |-> userId, application_path |-> path,
      vendor_id |-> vendorId, cover_letter |-> other.cover_letter,
      resume_url |-> other.resume_url, custom_responses |-> other.custom_responses,
      consent_given |-> other.consent_given ]

ApplicationInputs ==
    { CreateJobApplicationInput(j, u, p, v, o) :
        j \in JobIdInputs, u \in UserIdInputs, p \in ApplicationPaths,
        v \in VendorIdInputs, o \in OtherFieldInputs }

-----------------------------------------------------------------------------
(* Spec: one caller; createJobApplication calls run one after another *)

Init ==
    /\ users = InitUsers
    /\ jobs = InitJobs
    /\ vendors = InitVendors
    /\ apps = <<>>
    /\ clock = 1
    /\ ret = NoRet
    /\ calls = <<IdleCall>>
    /\ notifications = <<>>

Next ==
    \/ \E input \in ApplicationInputs : Begin(1, input)
    \/ createJobApplication(1)
    \/ Return(1)

Spec == Init /\ [][Next]_vars

-----------------------------------------------------------------------------
(* createJobApplication as the store sees it: one step per awaited          *)
(* statement, so that the statements of concurrent calls interleave         *)

Procs == 1..NumProcs

\* Validate that the job exists and get job details
SelectJob(p) ==
    /\ calls[p].pc = "selectJob"
    /\ LET jobResults == JobResults(calls[p].input[1].job_id)
       IN  IF Len(jobResults) = 0 THEN Throw(p, "Job not found")
           ELSE calls' = [calls EXCEPT ![p].pc = "selectUser",
                                       ![p].job = Some(jobResults[1])]
    /\ UNCHANGED <<notifications, users, jobs, vendors, apps, clock, ret>>

\* Validate that the user exists; then `if (input.vendor_id)`
SelectUser(p) ==
    /\ calls[p].pc = "selectUser"
    /\ IF Len(UserResults(calls[p].input[1].user_id)) = 0
       THEN Throw(p, "User not found")
       ELSE calls' = [calls EXCEPT ![p].pc =
                        IF TruthyNum(calls[p].input[1].vendor_id)
                        THEN "selectVendor" ELSE "selectExisting"]
    /\ UNCHANGED <<notifications, users, jobs, vendors, apps, clock, ret>>

\* Validate vendor if provided
SelectVendor(p) ==
    /\ calls[p].pc = "selectVendor"
    /\ IF Len(VendorResults(calls[p].input[1].vendor_id[1])) = 0
       THEN Throw(p, "Vendor not found or inactive")
       ELSE calls' = [calls EXCEPT ![p].pc = "selectExisting"]
    /\ UNCHANGED <<notifications, users, jobs, vendors, apps, clock, ret>>

\* Check if application already exists; then validate application path
\* permissions against the job row read by SelectJob
SelectExisting(p) ==
    /\ calls[p].pc = "selectExisting"
    /\ LET input == calls[p].input[1]
       IN  IF Len(ExistingApplications(input.job_id, input.user_id)) > 0
           THEN Throw(p, "Application already exists for this job")
           ELSE IF ~PathAllowed(calls[p].job[1], input.application_path)
           THEN Throw(p, "Application path not allowed for this job")
           ELSE calls' = [calls EXCEPT ![p].pc = "eligibility"]
    /\ UNCHANGED <<notifications, users, jobs, vendors, apps, clock, ret>>

\* Calculate scores
ScoreEligibility(p) ==
    /\ calls[p].pc = "eligibility"
    /\ calls' = [calls EXCEPT ![p].pc = "readiness",
                    ![p].eligibilityScore =
                        calculateEligibilityScore(calls[p].input[1].user_id,
                                                  calls[p].input[1].job_id)]
    /\ UNCHANGED <<notifications, users, jobs, vendors, apps, clock, ret>>

ScoreReadiness(p) ==
    /\ calls[p].pc = "readiness"
    /\ calls' = [calls EXCEPT ![p].pc = "skills",
                    ![p].readinessScore =
                        calculateReadinessScore(calls[p].input[1].user_id)]
    /\ UNCHANGED <<notifications, users, jobs, vendors, apps, clock, ret>>

ScoreSkills(p) ==
    /\ calls[p].pc = "skills"
    /\ calls' = [calls EXCEPT ![p].pc = "insert",
                    ![p].skillsMatchPercentage =
                        calculateSkillsMatch(calls[p].input[1].user_id,
                                             calls[p].input[1].job_id)]
    /\ UNCHANGED <<notifications, users, jobs, vendors, apps, clock, ret>>

\* the insert against a table with a unique index on (job_id, user_id)
InsertApplicationUniqueIndex(p) ==
    /\ calls[p].pc = "insert"
    /\ IF \E i \in 1..Len(apps) : /\ apps[i].job_id = calls[p].input[1].job_id
                                  /\ apps[i].user_id = calls[p].input[1].user_id
       THEN /\ apps' = apps
            /\ Throw(p, "duplicate key value violates unique constraint")
       ELSE /\ apps' = Append(apps, NewApplication(calls[p].input[1],
                                        calls[p].eligibilityScore,
                                        calls[p].readinessScore,
                                        calls[p].skillsMatchPercentage))
            /\ calls' = [calls EXCEPT ![p].pc = "done", ![p].result = "ok"]
    /\ UNCHANGED <<notifications, users, jobs, vendors, clock, ret>>

\* Create the application: the table has no unique index on (job_id, user_id)
InsertApplication(p) ==
    /\ calls[p].pc = "insert"
    /\ LET application == NewApplication(calls[p].input[1],
                                calls[p].eligibilityScore,
                                calls[p].readinessScore,
                                calls[p].skillsMatchPercentage)
       IN  /\ apps' = Append(apps, application)
           /\ calls' = [calls EXCEPT ![p].pc = "done", ![p].result = "ok",
                                     ![p].application = Some(application)]
    /\ UNCHANGED <<notifications, users, jobs, vendors, clock, ret>>

-----------------------------------------------------------------------------
(* SpecConc: several callers; createJobApplication calls overlap *)

\* both candidates apply to job 1: the first directly, the second through the
\* active vendor
ConcInputs ==
    { CreateJobApplicationInput(1, 1, "direct", None,
                                [consent_given |-> TRUE, cover_letter |-> None,
                                 resume_url |-> None, custom_responses |-> <<>>]),
      CreateJobApplicationInput(1, 2, "vendor", Some(1),
                                [consent_given |-> TRUE, cover_letter |-> None,
                                 resume_url |-> None, custom_responses |-> <<>>]) }

InitConc ==
    /\ users = InitUsers
    /\ jobs = InitJobs
    /\ vendors = InitVendors
    /\ apps = <<>>
    /\ clock = 1
    /\ ret = NoRet
    /\ calls = [p \in Procs |-> IdleCall]
    /\ notifications = <<>>

NextConc ==
    \E p \in Procs :
        \/ \E input \in ConcInputs : Begin(p, input)
        \/ SelectJob(p)
        \/ SelectUser(p)
        \/ SelectVendor(p)
        \/ SelectExisting(p)
        \/ ScoreEligibility(p)
        \/ ScoreReadiness(p)
        \/ ScoreSkills(p)
        \/ InsertApplication(p)
        \/ Return(p)

SpecConc == InitConc /\ [][NextConc]_vars

-----------------------------------------------------------------------------
(* SpecStatus: applications are created, then their status is updated *)

\* both candidates apply to job 1 directly, with and without consent
StatusApplicationInputs ==
    { CreateJobApplicationInput(1, u, "direct", None,
                                [consent_given |-> c, cover_letter |-> None,
                                 resume_url |-> None, custom_responses |-> <<>>]) :
        u \in DOMAIN InitUsers, c \in BOOLEAN }

\* ids of rows that exist and one that never does
ApplicationIdInputs == 1..(MaxApps + 1)
StatusInputs == {"reviewing", "rejected"}
ApplicationIdListInputs ==
    {<<>>} \cup {<<i>> : i \in ApplicationIdInputs}
           \cup {<<i, j>> : i \in ApplicationIdInputs, j \in ApplicationIdInputs}

NextStatus ==
    \/ \E input \in StatusApplicationInputs : Begin(1, input)
    \/ createJobApplication(1)
    \/ Return(1)
    \/ /\ NoCallInFlight
       /\ \E id \in ApplicationIdInputs, status \in StatusInputs :
            updateApplicationStatus([id |-> id, status |-> status])
    \/ /\ NoCallInFlight
       /\ \E ids \in ApplicationIdListInputs, status \in StatusInputs :
            bulkUpdateApplicationStatus(ids, status)
    \/ Tick

SpecStatus == Init /\ [][NextStatus]_vars

-----------------------------------------------------------------------------
(* SpecScore: the scorers over a range of candidate and job rows *)

LocationInputs == {None, Some(<<>>), Some(<<"A", "b">>)}
PreferredLocationInputs == {Some(<<>>), Some(<< <<"c">>, <<"a", "B">> >>)}
ExperienceInputs == {None, Some(0), Some(1), Some(2), Some(4), Some(5), Some(9)}
SkillsInputs ==
    { None, Some(<<>>), Some(<< <<"A">> >>), Some(<< <<" ">>, <<"c">> >>),
      Some(<< <<"a", " ">>, <<"b">>, <<"c", "c">> >>) }
UrlInputs == {None, Some(<<>>), Some(<<"a">>)}
LinkInputs == {None, Some(<<"a">>)}

ScoreUsers ==
    { [ email |-> <<"a">>, first_name |-> <<"a">>, last_name |-> <<"b">>,
        phone |-> None, resume_url |-> r, linkedin_url |-> l, portfolio_url |-> f,
        location |-> loc, preferred_locations |-> pl, skills |-> sk,
        experience_years |-> e ] :
        r \in UrlInputs, l \in LinkInputs, f \in LinkInputs, loc \in LocationInputs,
        pl \in PreferredLocationInputs, sk \in SkillsInputs, e \in ExperienceInputs }

ScoreJobs ==
    { [ title |-> <<"a">>, description |-> d, requirements |-> rq,
        responsibilities |-> <<"c">>, location |-> loc, remote_allowed |-> rem,
        allowed_application_paths |-> <<"direct">>, status |-> "active" ] :
        d \in {<<"b">>}, rq \in {<<"a">>, <<"C">>},
        loc \in {<<>>, <<"a">>, <<"a", "b">>, <<"c">>}, rem \in BOOLEAN }

\* the stored id and one that is not stored
ScoreIdInputs == {1, 2}

InitScore ==
    /\ users \in {1 :> u : u \in ScoreUsers}
    /\ jobs \in {1 :> j : j \in ScoreJobs}
    /\ vendors = InitVendors
    /\ apps = <<>>
    /\ clock = 1
    /\ ret = NoRet
    /\ calls = <<IdleCall>>
    /\ notifications = <<>>

EligibilityScoreCall(userId, jobId) ==
    /\ ret' = [op |-> "calculateEligibilityScore",
               result |-> calculateEligibilityScore(userId, jobId),
               value |-> <<userId, jobId>>]
    /\ UNCHANGED <<notifications, users, jobs, vendors, apps, clock, calls>>

\* the percentage createJobApplication gets from calculateSkillsMatch
SkillsMatchCall(userId, jobId) ==
    /\ ret' = [op |-> "calculateSkillsMatch",
               result |-> calculateSkillsMatch(userId, jobId),
               value |-> <<userId, jobId>>]
    /\ UNCHANGED <<notifications, users, jobs, vendors, apps, clock, calls>>

NextScore ==
    \E userId \in ScoreIdInputs, jobId \in ScoreIdInputs :
        \/ EligibilityScoreCall(userId, jobId)
        \/ SkillsMatchCall(userId, jobId)

SpecScore == InitScore /\ [][NextScore]_vars

-----------------------------------------------------------------------------
(* searchJobs, getRecommendedJobs and getJobRequisitions *)

JobStatuses == {"draft", "active", "paused", "closed", "archived"}
VisibilityLevels == {"public", "internal", "restricted", "private"}

\* text LIKE pattern, compared case-insensitively as ILIKE does: % stands for
\* any run of characters and _ for any one character
RECURSIVE Like(_, _)
Like(text, pattern) ==
    IF Len(pattern) = 0 THEN Len(text) = 0
    ELSE IF Head(pattern) = "%"
        THEN Like(text, Tail(pattern)) \/ (Len(text) > 0 /\ Like(Tail(text), pattern))
    ELSE /\ Len(text) > 0
         /\ (Head(pattern) = "_" \/ LowerChar(Head(pattern)) = LowerChar(Head(text)))
         /\ Like(Tail(text), Tail(pattern))

\* ilike(column, `%${value}%`)
ilike(column, value) == Like(column, <<"%">> \o value \o <<"%">>)

\* or(...values.map(value => ilike(column, `%${value}%`)))
ilikeAny(column, values) == \E i \in 1..Len(values) : ilike(column, values[i])

\* a comparison that lets an unset bound through
gteOrNull(column, value) == IsNull(column) \/ column[1] >= value

\* gte / lte on a nullable numeric column: NULL compares as not true
gte(column, value) == IsSome(column) /\ column[1] >= value
lte(column, value) == IsSome(column) /\ column[1] <= value

\* the row comes before the other in ORDER BY published_at DESC: NULLs first,
\* then later timestamps first; rows with equal keys in id order
PublishedBefore(a, b) ==
    LET ka == jobs[a].published_at
        kb == jobs[b].published_at
    IN  IF ka = kb THEN a <= b
        ELSE IF IsNull(ka) THEN TRUE
        ELSE IF IsNull(kb) THEN FALSE
        ELSE ka[1] > kb[1]

\* .orderBy(desc(jobRequisitionsTable.published_at)) over the selected ids
RECURSIVE OrderByPublishedDesc(_)
OrderByPublishedDesc(ids) ==
    IF ids = {} THEN <<>>
    ELSE LET first == CHOOSE a \in ids : \A b \in ids : PublishedBefore(a, b)
         IN  <<first>> \o OrderByPublishedDesc(ids \ {first})

\* a page cut that ignores the offset
LimitOnly(rows, limit, offset) ==
    SubSeq(rows, 1, IF limit < Len(rows) THEN limit ELSE Len(rows))

\* .limit(limit).offset(offset)
LimitOffset(rows, limit, offset) ==
    SubSeq(rows, offset + 1, IF offset + limit < Len(rows) THEN offset + limit
                             ELSE Len(rows))

\* a filter on the status alone
ActiveOnly(job) == job.status = "active"

\* Only show active and public jobs
ActivePublic(job) == job.status = "active" /\ job.visibility_level = "public"

\* the condition without the employment type filter
SearchConditionAnyType(input, id) ==
    LET job == jobs[id]
    IN  /\ ActivePublic(job)
        /\ TruthyStr(input.keywords)
            => \/ ilike(job.title, input.keywords[1])
               \/ ilike(job.description, input.keywords[1])
               \/ ilike(job.requirements, input.keywords[1])
               \/ ilike(job.responsibilities, input.keywords[1])
        /\ TruthyStr(input.location) => ilike(job.location, input.location[1])
        /\ IsSome(input.remote_allowed) => job.remote_allowed = input.remote_allowed[1]
        /\ IsSome(input.salary_min) => gte(job.salary_max, input.salary_min[1])
        /\ IsSome(input.salary_max) => lte(job.salary_min, input.salary_max[1])
        /\ TruthyNum(input.organization_id)
            => job.organization_id = input.organization_id[1]
        /\ (IsSome(input.skills) /\ Len(input.skills[1]) > 0)
            => ilikeAny(job.requirements, input.skills[1])

\* the condition searchJobs builds from its input, on one row
SearchCondition(input, id) ==
    LET job == jobs[id]
    IN  /\ ActivePublic(job)
        /\ TruthyStr(input.keywords)
            => \/ ilike(job.title, input.keywords[1])
               \/ ilike(job.description, input.keywords[1])
               \/ ilike(job.requirements, input.keywords[1])
               \/ ilike(job.responsibilities, input.keywords[1])
        /\ TruthyStr(input.location) => ilike(job.location, input.location[1])
        /\ IsSome(input.remote_allowed) => job.remote_allowed = input.remote_allowed[1]
        /\ (IsSome(input.employment_types) /\ Len(input.employment_types[1]) > 0)
            => arrayIncludes(input.employment_types[1], job.employment_type)
        /\ IsSome(input.salary_min) => gte(job.salary_max, input.salary_min[1])
        /\ IsSome(input.salary_max) => lte(job.salary_min, input.salary_max[1])
        /\ TruthyNum(input.organization_id)
            => job.organization_id = input.organization_id[1]
        /\ (IsSome(input.skills) /\ Len(input.skills[1]) > 0)
            => ilikeAny(job.requirements, input.skills[1])

\* the rows the condition selects
SearchMatches(input) == {id \in DOMAIN jobs : SearchCondition(input, id)}

\* what searchJobs returns when the ordered query yields the matching rows in
\* the order `rows`; the jobs are given by their ids, in order
SearchJobsPage(input, rows) ==
    LET offset == (input.page - 1) * input.limit
        results == LimitOffset(rows, input.limit, offset)
        total == Cardinality(SearchMatches(input))
    IN  [ jobs |-> results, total |-> total, page |-> input.page,
          limit |-> input.limit, hasMore |-> offset + Len(results) < total ]

\* what searchJobs returns over a store whose matching rows have distinct
\* published_at, where the order of the rows is determined
searchJobs(input) ==
    SearchJobsPage(input, OrderByPublishedDesc(SearchMatches(input)))

\* a comes before b in every order by published_at descending, NULLs first
PublishedStrictlyBefore(a, b) ==
    LET ka == jobs[a].published_at
        kb == jobs[b].published_at
    IN  /\ ka # kb
        /\ IsNull(ka) \/ (IsSome(kb) /\ ka[1] > kb[1])

\* the orders in which ORDER BY published_at DESC may yield the rows: rows
\* with equal or null published_at come in any order, which may differ from
\* one execution of the query to the next
PublishedOrders(ids) ==
    {rows \in [1..Cardinality(ids) -> ids] :
        /\ \A i, j \in 1..Cardinality(ids) : rows[i] = rows[j] => i = j
        /\ \A i, j \in 1..Cardinality(ids) :
                i < j => ~PublishedStrictlyBefore(rows[j], rows[i])}

\* the candidate ids of the applications for the job of that id
AppliedJobIdsSwappedColumns(userId) ==
    {apps[i].user_id : i \in {k \in 1..Len(apps) : apps[k].job_id = userId}}

\* the job ids of the applications of the candidate
AppliedJobIds(userId) ==
    {apps[i].job_id : i \in {k \in 1..Len(apps) : apps[k].user_id = userId}}

\* every recommendation condition the profile has data for, all at once
RecommendationConditionAllFilters(userProfile, job) ==
    LET userSkills == OrEmpty(userProfile.skills)
        preferredLocations == OrEmpty(userProfile.preferred_locations)
    IN  /\ Len(userSkills) > 0 => ilikeAny(job.requirements, userSkills)
        /\ Len(preferredLocations) > 0 => ilikeAny(job.location, preferredLocations)
        /\ TruthyStr(userProfile.location)
            => ilike(job.location, userProfile.location[1])
        /\ (Len(userSkills) = 0 /\ Len(preferredLocations) = 0
                /\ ~TruthyStr(userProfile.location)) => job.remote_allowed

\* the one recommendation condition getRecommendedJobs adds for the profile
RecommendationCondition(userProfile, job) ==
    LET userSkills == OrEmpty(userProfile.skills)
        preferredLocations == OrEmpty(userProfile.preferred_locations)
    IN  IF Len(userSkills) > 0 THEN ilikeAny(job.requirements, userSkills)
        ELSE IF Len(preferredLocations) > 0
            THEN ilikeAny(job.location, preferredLocations)
        ELSE IF TruthyStr(userProfile.location)
            THEN ilike(job.location, userProfile.location[1])
        ELSE job.remote_allowed

\* what getRecommendedJobs returns; the jobs are given by their ids, in order
getRecommendedJobs(userId, limit) ==
    IF userId \notin DOMAIN users THEN <<>>
    ELSE LET matches ==
                {id \in DOMAIN jobs :
                    /\ ActivePublic(jobs[id])
                    /\ id \notin AppliedJobIds(userId)
                    /\ RecommendationCondition(users[userId], jobs[id])}
         IN  LimitOffset(OrderByPublishedDesc(matches), limit, 0)

\* what getJobRequisitions returns: the ids of the rows selected (the query
\* has no ORDER BY; they are listed in id order)
getJobRequisitions ==
    LET selected == {id \in DOMAIN jobs : ActivePublic(jobs[id])}
    IN  SelectSeq([i \in 1..Cardinality(DOMAIN jobs) |-> i],
                  LAMBDA id : id \in selected)

-----------------------------------------------------------------------------
(* SpecSearch: the three job queries over a store of jobs and candidates *)

\* a job row of the search store
SearchJob(org, requirements, location, remote, type, smin, smax, vis, status, pub) ==
    [ organization_id |-> org, title |-> <<"a">>, description |-> <<"b">>,
      requirements |-> requirements, responsibilities |-> <<"c">>,
      location |-> location, remote_allowed |-> remote, employment_type |-> type,
      salary_min |-> smin, salary_max |-> smax, visibility_level |-> vis,
      allowed_application_paths |-> <<"direct">>, status |-> status,
      published_at |-> pub ]

\* four active public jobs, a public job that is not active and an active
\* job that is not public; the last two match whatever the first does
SearchJobs(status, visibility) ==
    << SearchJob(1, <<"a">>, <<"a", "b">>, FALSE, "full-time",
                 Some(2), Some(5), "public", "active", Some(3)),
       SearchJob(2, <<"C">>, <<"c">>, TRUE, "contract",
                 None, None, "public", "active", Some(2)),
       SearchJob(1, <<"b">>, <<"A">>, FALSE, "part-time",
                 Some(4), None, "public", "active", Some(1)),
       SearchJob(2, <<"a">>, <<"c">>, TRUE, "full-time",
                 None, Some(3), "public", "active", None),
       SearchJob(1, <<"a">>, <<"a", "b">>, TRUE, "full-time",
                 Some(2), Some(5), "public", status, Some(4)),
       SearchJob(1, <<"a">>, <<"a", "b">>, TRUE, "full-time",
                 Some(2), Some(5), visibility, "active", Some(5)) >>

\* a candidate row of the search store
SearchUser(skills, preferred, location) ==
    [ email |-> <<"a">>, first_name |-> <<"a">>, last_name |-> <<"b">>,
      phone |-> None, resume_url |-> None, linkedin_url |-> None,
      portfolio_url |-> None, location |-> location,
      preferred_locations |-> preferred, skills |-> skills,
      experience_years |-> None ]

\* candidates with skills, with preferred locations only, with a location
\* only, and with none of them
SearchUsers ==
    << SearchUser(Some(<< <<"a">> >>), Some(<< <<"c">> >>), Some(<<"a">>)),
       SearchUser(Some(<<>>), Some(<< <<"c">> >>), Some(<<"A">>)),
       SearchUser(None, None, Some(<<"a">>)),
       SearchUser(Some(<<>>), Some(<<>>), None),
       SearchUser(Some(<<>>), Some(<<>>), Some(<<>>)),
       SearchUser(Some(<< <<"c">>, <<"b">> >>), Some(<<>>), None) >>

KeywordInputs == {None, Some(<<>>), Some(<<"A">>), Some(<<"_">>)}
SearchLocationInputs == {None, Some(<<"A">>)}
RemoteInputs == {None, Some(TRUE), Some(FALSE)}
EmploymentTypeInputs ==
    {None, Some(<<>>), Some(<<"full-time">>), Some(<<"contract", "part-time">>)}
SalaryMinInputs == {None, Some(0), Some(4)}
SalaryMaxInputs == {None, Some(3)}
OrganizationInputs == {None, Some(0), Some(1)}
SearchSkillInputs == {None, Some(<<>>), Some(<< <<"c">>, <<"b">> >>)}
PageInputs == {1, 2, 3}
LimitInputs == {1, 2}

JobSearchInputs ==
    [ keywords : KeywordInputs, location : SearchLocationInputs,
      remote_allowed : RemoteInputs, employment_types : EmploymentTypeInputs,
      salary_min : SalaryMinInputs, salary_max : SalaryMaxInputs,
      organization_id : OrganizationInputs, skills : SearchSkillInputs,
      page : PageInputs, limit : LimitInputs ]

\* the stored candidates and one that is not stored
RecommendUserInputs == 1..(Len(SearchUsers) + 1)
RecommendLimitInputs == {1, 10}

InitSearch ==
    /\ users = SearchUsers
    /\ jobs \in {SearchJobs(status, visibility) :
                    status \in JobStatuses \ {"active"},
                    visibility \in VisibilityLevels \ {"public"}}
    /\ vendors = InitVendors
    /\ apps = <<>>
    /\ clock = 1
    /\ ret = NoRet
    /\ calls = <<IdleCall>>
    /\ notifications = <<>>

\* a caller calls searchJobs(input) and holds what it returned
SearchJobsCall(input) ==
    /\ ret' = [op |-> "searchJobs", result |-> searchJobs(input), value |-> input]
    /\ UNCHANGED <<notifications, users, jobs, vendors, apps, clock, calls>>

\* a caller calls getRecommendedJobs(userId, limit) and holds what it returned
RecommendedJobsCall(userId, limit) ==
    /\ ret' = [op |-> "getRecommendedJobs",
               result |-> getRecommendedJobs(userId, limit),
               value |-> <<userId, limit>>]
    /\ UNCHANGED <<notifications, users, jobs, vendors, apps, clock, calls>>

\* a caller calls getJobRequisitions() and holds what it returned
JobRequisitionsCall ==
    /\ ret' = [op |-> "getJobRequisitions", result |-> getJobRequisitions,
               value |-> None]
    /\ UNCHANGED <<notifications, users, jobs, vendors, apps, clock, calls>>

\* the caller is done with the result it holds
Discard ==
    /\ ret # NoRet
    /\ ret' = NoRet
    /\ UNCHANGED <<notifications, users, jobs, vendors, apps, clock, calls>>

\* one query at a time: the next is made once the last result is discarded
NextSearch ==
    \/ /\ ret = NoRet
       /\ \E input \in JobSearchInputs : SearchJobsCall(input)
    \/ /\ ret = NoRet
       /\ \E userId \in RecommendUserInputs, limit \in RecommendLimitInputs :
            RecommendedJobsCall(userId, limit)
    \/ /\ ret = NoRet
       /\ JobRequisitionsCall
    \/ Discard

SpecSearch == InitSearch /\ [][NextSearch]_vars

-----------------------------------------------------------------------------
(* SpecPages: a caller reads the pages 1, 2, 3, ... of one search over a    *)
(* store that does not change, one searchJobs call per page                 *)

\* active public jobs, some published at the same time and some never
PagedJobs ==
    << SearchJob(1, <<"a">>, <<"a">>, TRUE, "full-time",
                 None, None, "public", "active", Some(2)),
       SearchJob(1, <<"a">>, <<"a">>, TRUE, "full-time",
                 None, None, "public", "active", Some(2)),
       SearchJob(1, <<"a">>, <<"a">>, FALSE, "full-time",
                 None, None, "public", "active", Some(1)),
       SearchJob(1, <<"a">>, <<"a">>, FALSE, "full-time",
                 None, None, "public", "active", None),
       SearchJob(1, <<"a">>, <<"a">>, TRUE, "full-time",
                 None, None, "public", "active", None),
       SearchJob(1, <<"a">>, <<"a">>, FALSE, "full-time",
                 None, None, "public", "active", Some(2)) >>

PageLimitInputs == {1, 2, 3}

\* the criteria of the paged searches, for page 1
PagedSearchInputs ==
    [ keywords : {None}, location : {None}, remote_allowed : RemoteInputs,
      employment_types : {None}, salary_min : {None}, salary_max : {None},
      organization_id : {None}, skills : {None}, page : {1},
      limit : PageLimitInputs ]

InitPages ==
    /\ users = SearchUsers
    /\ jobs = PagedJobs
    /\ vendors = InitVendors
    /\ apps = <<>>
    /\ clock = 1
    /\ ret = NoRet
    /\ calls = <<IdleCall>>
    /\ notifications = <<>>

\* the caller asks for page 1; the query yields the rows in one of its orders
FirstPage(input, rows) ==
    /\ ret = NoRet
    /\ ret' = [op |-> "searchPages", result |-> <<SearchJobsPage(input, rows)>>,
               value |-> input]
    /\ UNCHANGED <<notifications, users, jobs, vendors, apps, clock, calls>>

\* the last page said hasMore: the caller asks for the next page with the
\* same criteria and limit; the query yields the rows in one of its orders
FollowingPage(rows) ==
    /\ ret.op = "searchPages"
    /\ ret.result[Len(ret.result)].hasMore
    /\ LET input == [ret.value EXCEPT !.page = Len(ret.result) + 1]
       IN  ret' = [ret EXCEPT !.result = Append(@, SearchJobsPage(input, rows))]
    /\ UNCHANGED <<notifications, users, jobs, vendors, apps, clock, calls>>

NextPages ==
    \/ /\ ret = NoRet
       /\ \E input \in PagedSearchInputs :
            \E rows \in PublishedOrders(SearchMatches(input)) :
                FirstPage(input, rows)
    \/ /\ ret.op = "searchPages"
       /\ \E rows \in PublishedOrders(SearchMatches(ret.value)) :
            FollowingPage(rows)
    \/ Discard

SpecPages == InitPages /\ [][NextPages]_vars

-----------------------------------------------------------------------------
(* SpecRecommend: candidates of the search store apply for jobs and ask for *)
(* recommendations, one call after another                                  *)

\* direct applications of the candidates with skills, with preferred
\* locations, with a location and with none of them, for active public jobs
RecommendApplicationInputs ==
    { CreateJobApplicationInput(j, u, "direct", None,
          [consent_given |-> TRUE, cover_letter |-> None, resume_url |-> None,
           custom_responses |-> None]) :
        j \in {1, 2, 4}, u \in {1, 2, 3, 4} }

InitRecommend ==
    /\ users = SearchUsers
    /\ jobs = SearchJobs("draft", "internal")
    /\ vendors = InitVendors
    /\ apps = <<>>
    /\ clock = 1
    /\ ret = NoRet
    /\ calls = <<IdleCall>>
    /\ notifications = <<>>

NextRecommend ==
    \/ /\ ret = NoRet
       /\ \E input \in RecommendApplicationInputs : Begin(1, input)
    \/ createJobApplication(1)
    \/ Return(1)
    \/ /\ ret = NoRet
       /\ NoCallInFlight
       /\ \E userId \in RecommendUserInputs, limit \in RecommendLimitInputs :
            RecommendedJobsCall(userId, limit)
    \/ Discard

SpecRecommend == InitRecommend /\ [][NextRecommend]_vars

-----------------------------------------------------------------------------
(* SpecReadiness: calculateReadinessScore over two candidate rows, the      *)
(* second being the first with one more field populated                     *)

ReadinessUsers ==
    { [ email |-> em, first_name |-> fn, last_name |-> ln,
        phone |-> ph, resume_url |-> r, linkedin_url |-> l, portfolio_url |-> f,
        location |-> loc, preferred_locations |-> pl, skills |-> sk,
        experience_years |-> e ] :
        em \in {<<>>, <<"a">>}, fn \in {<<>>, <<"a">>}, ln \in {<<>>, <<"b">>},
        ph \in {None, Some(<<>>), Some(<<"c">>)},
        r \in {Some(<<>>), Some(<<"a">>)}, l \in {None, Some(<<"b">>)},
        f \in {None, Some(<<"c">>)}, loc \in {None, Some(<<"a">>)},
        pl \in {Some(<<>>), Some(<< <<"c">> >>)}, sk \in {None, Some(<< <<"a">> >>)},
        e \in {None, Some(0), Some(3)} }

ReadinessFields ==
    { "email", "first_name", "last_name", "phone", "resume_url", "linkedin_url",
      "portfolio_url", "location", "preferred_locations", "skills",
      "experience_years" }

\* the row with one field given a value
Populate(user, field) ==
    CASE field = "email" -> [user EXCEPT !.email = <<"a">>]
      [] field = "first_name" -> [user EXCEPT !.first_name = <<"a">>]
      [] field = "last_name" -> [user EXCEPT !.last_name = <<"b">>]
      [] field = "phone" -> [user EXCEPT !.phone = Some(<<"c">>)]
      [] field = "resume_url" -> [user EXCEPT !.resume_url = Some(<<"a">>)]
      [] field = "linkedin_url" -> [user EXCEPT !.linkedin_url = Some(<<"b">>)]
      [] field = "portfolio_url" -> [user EXCEPT !.portfolio_url = Some(<<"c">>)]
      [] field = "location" -> [user EXCEPT !.location = Some(<<"a">>)]
      [] field = "preferred_locations" ->
            [user EXCEPT !.preferred_locations = Some(<< <<"c">> >>)]
      [] field = "skills" -> [user EXCEPT !.skills = Some(<< <<"a">> >>)]
      [] field = "experience_years" ->
            [user EXCEPT !.experience_years =
                IF IsSome(user.experience_years) THEN user.experience_years
                ELSE Some(0)]

\* the stored ids and one that is not stored
ReadinessIdInputs == {1, 2, 3}

InitReadiness ==
    /\ users \in {1 :> u @@ 2 :> Populate(u, field) :
                    u \in ReadinessUsers, field \in ReadinessFields}
    /\ jobs = InitJobs
    /\ vendors = InitVendors
    /\ apps = <<>>
    /\ clock = 1
    /\ ret = NoRet
    /\ calls = <<IdleCall>>
    /\ notifications = <<>>

ReadinessScoreCall(userId) ==
    /\ ret' = [op |-> "calculateReadinessScore",
               result |-> calculateReadinessScore(userId),
               value |-> <<userId>>]
    /\ UNCHANGED <<notifications, users, jobs, vendors, apps, clock, calls>>

NextReadiness == \E userId \in ReadinessIdInputs : ReadinessScoreCall(userId)

SpecReadiness == InitReadiness /\ [][NextReadiness]_vars

-----------------------------------------------------------------------------
(* updateJobRequisition and publishJobRequisition *)

\* `if (input.f !== undefined) updateValues.f = input.f`
SetIfDefined(field, column) == IF IsSome(field) THEN field[1] ELSE column

\* `if (input.f !== undefined) updateValues.f = input.f?.toString()`: for
\* null the value is undefined, and .set() skips an undefined value
SetIfNumber(field, column) ==
    IF IsSome(field) /\ IsSome(field[1]) THEN field[1] ELSE column

\* the row after .set(updateValues) of updateJobRequisition
UpdatedJob(job, input) ==
    [ job EXCEPT
        !.title = SetIfDefined(input.title, @),
        !.description = SetIfDefined(input.description, @),
        !.requirements = SetIfDefined(input.requirements, @),
        !.responsibilities = SetIfDefined(input.responsibilities, @),
        !.location = SetIfDefined(input.location, @),
        !.remote_allowed = SetIfDefined(input.remote_allowed, @),
        !.employment_type = SetIfDefined(input.employment_type, @),
        !.salary_min = SetIfNumber(input.salary_min, @),
        !.salary_max = SetIfNumber(input.salary_max, @),
        !.visibility_level = SetIfDefined(input.visibility_level, @),
        !.allowed_application_paths =
            SetIfDefined(input.allowed_application_paths, @),
        !.status = SetIfDefined(input.status, @),
        !.updated_at = Some(clock) ]

\* db.update(jobRequisitionsTable).set(updateValues).where(eq(id, input.id)):
\* the table after the statement
UpdateJobRow(table, input) ==
    [id \in DOMAIN table |->
        IF id = input.id THEN UpdatedJob(table[id], input) ELSE table[id]]

\* the whole handler: null for a missing job, else the updated row
updateJobRequisition(input) ==
    /\ jobs' = IF input.id \in DOMAIN jobs THEN UpdateJobRow(jobs, input) ELSE jobs
    /\ ret' = [op |-> "updateJobRequisition",
               result |-> IF input.id \in DOMAIN jobs
                          THEN Some(jobs'[input.id]) ELSE None,
               value |-> input]
    /\ UNCHANGED <<notifications, users, vendors, apps, clock, calls>>

\* a job passes the checks of publishJobRequisition whatever its status
PublishableAnyStatus(existingJob) ==
    /\ Len(existingJob.title) > 0
    /\ Len(existingJob.description) > 0
    /\ Len(existingJob.requirements) > 0
    /\ Len(existingJob.responsibilities) > 0

\* the checks of publishJobRequisition on the row it read: draft status and
\* the four texts truthy
Publishable(existingJob) ==
    /\ existingJob.status = "draft"
    /\ Len(existingJob.title) > 0
    /\ Len(existingJob.description) > 0
    /\ Len(existingJob.requirements) > 0
    /\ Len(existingJob.responsibilities) > 0

\* the row after .set({status: 'active', published_at, updated_at})
PublishedJob(job) ==
    [ job EXCEPT !.status = "active", !.published_at = Some(clock),
                 !.updated_at = Some(clock) ]

\* db.update(jobRequisitionsTable).set({...}).where(eq(id, id)): the table
\* after the statement
PublishJobRow(table, id) ==
    [i \in DOMAIN table |-> IF i = id THEN PublishedJob(table[i]) ELSE table[i]]

\* the whole handler: null for a missing job and for one that fails the
\* checks, else the published row
publishJobRequisition(id) ==
    LET publishes == id \in DOMAIN jobs /\ Publishable(jobs[id])
    IN  /\ jobs' = IF publishes THEN PublishJobRow(jobs, id) ELSE jobs
        /\ ret' = [op |-> "publishJobRequisition",
                   result |-> IF publishes THEN Some(jobs'[id]) ELSE None,
                   value |-> id]
        /\ UNCHANGED <<notifications, users, vendors, apps, clock, calls>>

-----------------------------------------------------------------------------
(* SpecPublish: jobs created as drafts are updated and published, one call  *)
(* after another                                                            *)

\* a row createJobRequisition stores: status draft, published_at null
DraftJob(title, description, requirements, responsibilities) ==
    [ organization_id |-> 1, title |-> title, description |-> description,
      requirements |-> requirements, responsibilities |-> responsibilities,
      location |-> <<"a">>, remote_allowed |-> FALSE,
      employment_type |-> "full-time", salary_min |-> None, salary_max |-> None,
      visibility_level |-> "public", allowed_application_paths |-> <<"direct">>,
      status |-> "draft", published_at |-> None, updated_at |-> Some(1) ]

\* a complete draft and a draft with one text possibly empty
DraftJobStores ==
    { << DraftJob(<<"a">>, <<"b">>, <<"a">>, <<"c">>), DraftJob(t, d, q, r) >> :
        <<t, d, q, r>> \in { << <<"a">>, <<"b">>, <<"a">>, <<"c">> >>,
                             << <<>>, <<"b">>, <<"a">>, <<"c">> >>,
                             << <<"a">>, <<>>, <<"a">>, <<"c">> >>,
                             << <<"a">>, <<"b">>, <<>>, <<"c">> >>,
                             << <<"a">>, <<"b">>, <<"a">>, <<>> >> } }

\* an updateJobRequisition input that supplies no field
NoJobUpdate(id) ==
    [ id |-> id, title |-> None, description |-> None, requirements |-> None,
      responsibilities |-> None, location |-> None, remote_allowed |-> None,
      employment_type |-> None, salary_min |-> None, salary_max |-> None,
      visibility_level |-> None, allowed_application_paths |-> None,
      status |-> None ]

\* ids of the stored jobs and one that is not stored
PublishIdInputs == {1, 2, 3}

\* updates of a text, of the status, and of both
JobUpdateInputs ==
    UNION { { [NoJobUpdate(id) EXCEPT !.title = Some(t)] : t \in {<<>>, <<"a">>} }
            \cup { [NoJobUpdate(id) EXCEPT !.status = Some(st)] : st \in JobStatuses }
            \cup { [NoJobUpdate(id) EXCEPT !.responsibilities = Some(<<>>),
                                           !.status = Some("draft")] }
            : id \in PublishIdInputs }

InitPublish ==
    /\ users = SearchUsers
    /\ jobs \in DraftJobStores
    /\ vendors = InitVendors
    /\ apps = <<>>
    /\ clock = 1
    /\ ret = NoRet
    /\ calls = <<IdleCall>>
    /\ notifications = <<>>

NextPublish ==
    \/ /\ ret = NoRet
       /\ \E input \in JobUpdateInputs : updateJobRequisition(input)
    \/ /\ ret = NoRet
       /\ \E id \in PublishIdInputs : publishJobRequisition(id)
    \/ Discard
    \/ Tick

SpecPublish == InitPublish /\ [][NextPublish]_vars

-----------------------------------------------------------------------------
(* SpecPaths: candidates apply for a job whose allowed application paths    *)
(* are updated, one call after another                                      *)

\* applications of both candidates for job 1, directly and through a vendor
PathApplicationInputs ==
    { CreateJobApplicationInput(1, u, path, v,
          [consent_given |-> TRUE, cover_letter |-> None, resume_url |-> None,
           custom_responses |-> <<>>]) :
        u \in {1, 2}, <<path, v>> \in {<<"direct", None>>, <<"vendor", Some(1)>>} }

\* updates of the allowed paths of a stored job and of a job that is not stored
PathUpdateInputs ==
    { [NoJobUpdate(id) EXCEPT !.allowed_application_paths = Some(paths)] :
        id \in {1, 3},
        paths \in {<<"direct">>, <<"vendor">>, <<"direct", "vendor">>} }

InitPaths ==
    /\ users = SearchUsers
    /\ jobs = << DraftJob(<<"a">>, <<"b">>, <<"a">>, <<"c">>) >>
    /\ vendors = InitVendors
    /\ apps = <<>>
    /\ clock = 1
    /\ ret = NoRet
    /\ calls = <<IdleCall>>
    /\ notifications = <<>>

NextPaths ==
    \/ \E input \in PathApplicationInputs : Begin(1, input)
    \/ createJobApplication(1)
    \/ Return(1)
    \/ /\ ret = NoRet
       /\ NoCallInFlight
       /\ \E input \in PathUpdateInputs : updateJobRequisition(input)
    \/ Discard

SpecPaths == InitPaths /\ [][NextPaths]_vars

-----------------------------------------------------------------------------
(* publishJobRequisition and updateJobRequisition as the store sees them:   *)
(* one step per awaited statement                                           *)

\* a caller p that has no call in flight calls publishJobRequisition(id)
BeginPublish(p, id) ==
    /\ calls[p].pc = "idle"
    /\ calls' = [calls EXCEPT ![p] = [IdleCall EXCEPT !.pc = "publishSelect",
                                                      !.input = Some(id)]]
    /\ UNCHANGED <<notifications, users, jobs, vendors, apps, clock, ret>>

\* the select and the checks on the row it returned
PublishSelect(p) ==
    /\ calls[p].pc = "publishSelect"
    /\ LET existingJobs == JobResults(calls[p].input[1])
       IN  IF Len(existingJobs) = 0 \/ ~Publishable(existingJobs[1])
           THEN calls' = [calls EXCEPT ![p].pc = "done", ![p].result = "null"]
           ELSE calls' = [calls EXCEPT ![p].pc = "publishWrite",
                                       ![p].job = Some(existingJobs[1])]
    /\ UNCHANGED <<notifications, users, jobs, vendors, apps, clock, ret>>

\* Update to published status: the statement selects the row by id alone
PublishWrite(p) ==
    /\ calls[p].pc = "publishWrite"
    /\ jobs' = PublishJobRow(jobs, calls[p].input[1])
    /\ calls' = [calls EXCEPT ![p].pc = "done", ![p].result = "ok",
                              ![p].job = Some(jobs'[calls[p].input[1]])]
    /\ UNCHANGED <<notifications, users, vendors, apps, clock, ret>>

\* a caller p that has no call in flight calls updateJobRequisition(input)
BeginUpdate(p, input) ==
    /\ calls[p].pc = "idle"
    /\ calls' = [calls EXCEPT ![p] = [IdleCall EXCEPT !.pc = "updateSelect",
                                                      !.input = Some(input)]]
    /\ UNCHANGED <<notifications, users, jobs, vendors, apps, clock, ret>>

\* First, check if the job requisition exists
UpdateSelect(p) ==
    /\ calls[p].pc = "updateSelect"
    /\ IF Len(JobResults(calls[p].input[1].id)) = 0
       THEN calls' = [calls EXCEPT ![p].pc = "done", ![p].result = "null"]
       ELSE calls' = [calls EXCEPT ![p].pc = "updateWrite"]
    /\ UNCHANGED <<notifications, users, jobs, vendors, apps, clock, ret>>

\* Update the job requisition
UpdateWrite(p) ==
    /\ calls[p].pc = "updateWrite"
    /\ jobs' = UpdateJobRow(jobs, calls[p].input[1])
    /\ calls' = [calls EXCEPT ![p].pc = "done", ![p].result = "ok",
                              ![p].job = Some(jobs'[calls[p].input[1].id])]
    /\ UNCHANGED <<notifications, users, vendors, apps, clock, ret>>

-----------------------------------------------------------------------------
(* SpecPublishConc: publishJobRequisition and updateJobRequisition calls    *)
(* on the same jobs overlap                                                 *)

\* updates of the status and of a text
ConcUpdateInputs ==
    { [NoJobUpdate(1) EXCEPT !.status = Some(st)] :
            st \in {"draft", "paused", "closed"} }
        \cup { [NoJobUpdate(1) EXCEPT !.title = Some(<<>>)] }

InitPublishConc ==
    /\ users = SearchUsers
    /\ jobs = << DraftJob(<<"a">>, <<"b">>, <<"a">>, <<"c">>),
                 DraftJob(<<"a">>, <<>>, <<"a">>, <<"c">>) >>
    /\ vendors = InitVendors
    /\ apps = <<>>
    /\ clock = 1
    /\ ret = NoRet
    /\ calls = [p \in Procs |-> IdleCall]
    /\ notifications = <<>>

NextPublishConc ==
    \/ \E p \in Procs :
        \/ \E id \in PublishIdInputs : BeginPublish(p, id)
        \/ PublishSelect(p)
        \/ PublishWrite(p)
        \/ \E input \in ConcUpdateInputs : BeginUpdate(p, input)
        \/ UpdateSelect(p)
        \/ UpdateWrite(p)
        \/ Return(p)
    \/ Tick

SpecPublishConc == InitPublishConc /\ [][NextPublishConc]_vars

-----------------------------------------------------------------------------
(* SpecPublishRace: each caller calls publishJobRequisition once and keeps  *)
(* what it returned; no job is updated                                      *)

NextPublishRace ==
    \/ \E p \in Procs :
        \/ \E id \in PublishIdInputs : BeginPublish(p, id)
        \/ PublishSelect(p)
        \/ PublishWrite(p)
    \/ Tick

SpecPublishRace == InitPublishConc /\ [][NextPublishRace]_vars

-----------------------------------------------------------------------------
(* createUser, one step per awaited statement *)

\* JSON.stringify of a list of strings: a text, not the list
JSONStringify(list) == [json |-> list]

\* db.select().from(usersTable).where(eq(email, input.email))
ExistingUsers(email) == SelectSeq(users, LAMBDA u : u.email = email)

\* a table that accepts any email
EmailIsTakenNever(email) == FALSE

\* email varchar NOT NULL UNIQUE: the index rejects a row whose email is stored
EmailIsTaken(email) == \E i \in 1..Len(users) : users[i].email = email

\* the row db.insert(usersTable).values({...}) adds
NewUser(input) ==
    [ email |-> input.email, first_name |-> input.first_name,
      last_name |-> input.last_name, phone |-> input.phone,
      resume_url |-> input.resume_url, linkedin_url |-> input.linkedin_url,
      portfolio_url |-> input.portfolio_url, location |-> input.location,
      preferred_locations |-> Some(JSONStringify(input.preferred_locations)),
      skills |-> Some(JSONStringify(input.skills)),
      experience_years |-> input.experience_years ]

\* a caller p that has no call in flight calls createUser(input)
BeginCreateUser(p, input) ==
    /\ calls[p].pc = "idle"
    /\ calls' = [calls EXCEPT ![p] = [IdleCall EXCEPT !.pc = "selectEmail",
                                                      !.input = Some(input)]]
    /\ UNCHANGED <<notifications, users, jobs, vendors, apps, clock, ret>>

\* Check if email already exists
SelectEmail(p) ==
    /\ calls[p].pc = "selectEmail"
    /\ IF Len(ExistingUsers(calls[p].input[1].email)) > 0
       THEN Throw(p, "User with this email already exists")
       ELSE calls' = [calls EXCEPT ![p].pc = "insertUser"]
    /\ UNCHANGED <<notifications, users, jobs, vendors, apps, clock, ret>>

\* Insert new user record: the unique index on email rejects a second row
InsertUser(p) ==
    /\ calls[p].pc = "insertUser"
    /\ Len(users) < MaxUsers
    /\ IF EmailIsTaken(calls[p].input[1].email)
       THEN /\ Throw(p, "duplicate key value violates unique constraint")
            /\ users' = users
       ELSE /\ users' = Append(users, NewUser(calls[p].input[1]))
            /\ calls' = [calls EXCEPT ![p].pc = "done", ![p].result = "ok"]
    /\ UNCHANGED <<notifications, jobs, vendors, apps, clock, ret>>

-----------------------------------------------------------------------------
(* SpecUsers: several callers; createUser calls overlap *)

\* two emails, each asked for under two first names
CreateUserInputs ==
    { [ email |-> e, first_name |-> f, last_name |-> <<"b">>, phone |-> None,
        resume_url |-> None, linkedin_url |-> None, portfolio_url |-> None,
        location |-> None, preferred_locations |-> <<>>, skills |-> << <<"a">> >>,
        experience_years |-> None ] :
        e \in {<<"a">>, <<"b">>}, f \in {<<"a">>, <<"c">>} }

InitUsersEmpty ==
    /\ users = <<>>
    /\ jobs = InitJobs
    /\ vendors = InitVendors
    /\ apps = <<>>
    /\ clock = 1
    /\ ret = NoRet
    /\ calls = [p \in Procs |-> IdleCall]
    /\ notifications = <<>>

NextUsers ==
    \E p \in Procs :
        \/ \E input \in CreateUserInputs : BeginCreateUser(p, input)
        \/ SelectEmail(p)
        \/ InsertUser(p)
        \/ Return(p)

SpecUsers == InitUsersEmpty /\ [][NextUsers]_vars

-----------------------------------------------------------------------------
(* createNotification, markNotificationAsRead, markAllNotificationsAsRead *)

NotificationTypes ==
    {"new_job_alert", "application_update", "job_match", "application_deadline"}

\* the columns' constraints on a new row: the type is of the enum, the user
\* is stored, and so are the related job and application when given
NotificationAccepted(row) ==
    /\ row.type \in NotificationTypes
    /\ row.user_id \in DOMAIN users
    /\ IsSome(row.related_job_id) => row.related_job_id[1] \in DOMAIN jobs
    /\ IsSome(row.related_application_id)
        => \E i \in 1..Len(apps) : apps[i].id = row.related_application_id[1]

\* the row db.insert(notificationsTable).values({...}) adds
NewNotification(userId, type, title, message, relatedJobId, relatedApplicationId) ==
    [ id |-> Len(notifications) + 1, user_id |-> userId, type |-> type,
      title |-> title, message |-> message,
      related_job_id |-> NumOrNull(relatedJobId),
      related_application_id |-> NumOrNull(relatedApplicationId),
      read |-> FALSE, sent_at |-> Some(clock), read_at |-> None ]

\* the whole handler: the row, or the error of the store
createNotification(userId, type, title, message, relatedJobId, relatedApplicationId) ==
    LET row == NewNotification(userId, type, title, message, relatedJobId,
                               relatedApplicationId)
    IN  /\ Len(notifications) < MaxNotifications
        /\ notifications' = IF NotificationAccepted(row)
                            THEN Append(notifications, row) ELSE notifications
        /\ ret' = [op |-> "createNotification",
                   result |-> IF NotificationAccepted(row) THEN Some(row) ELSE None,
                   value |-> userId]
        /\ UNCHANGED <<users, jobs, vendors, apps, clock, calls>>

\* .set({read: true, read_at: new Date()}) on one row
ReadNotification(row) == [row EXCEPT !.read = TRUE, !.read_at = Some(clock)]

\* the whole handler: null for a missing notification, else the updated row
markNotificationAsRead(notificationId) ==
    /\ notifications' =
            [i \in 1..Len(notifications) |->
                IF notifications[i].id = notificationId
                THEN ReadNotification(notifications[i]) ELSE notifications[i]]
    /\ ret' = [op |-> "markNotificationAsRead",
               result |-> IF notificationId \in 1..Len(notifications)
                          THEN Some(notifications'[notificationId]) ELSE None,
               value |-> notificationId]
    /\ UNCHANGED <<users, jobs, vendors, apps, clock, calls>>

\* a filter on the user alone
MarkAllSelectsEveryRow(row, userId) == row.user_id = userId

\* .where(and(eq(user_id, userId), eq(read, false)))
MarkAllSelects(row, userId) == row.user_id = userId /\ row.read = FALSE

\* the whole handler; it returns nothing
markAllNotificationsAsRead(userId) ==
    /\ notifications' =
            [i \in 1..Len(notifications) |->
                IF MarkAllSelects(notifications[i], userId)
                THEN ReadNotification(notifications[i]) ELSE notifications[i]]
    /\ ret' = [op |-> "markAllNotificationsAsRead", result |-> None,
               value |-> userId]
    /\ UNCHANGED <<users, jobs, vendors, apps, clock, calls>>

-----------------------------------------------------------------------------
(* SpecNotify: notifications are created and marked as read, one call       *)
(* after another                                                            *)

\* the stored candidates and one that is not stored
NotifyUserInputs == {1, 2, 3}
\* a type of the enum and a string that is not
NotifyTypeInputs == {"job_match", "reminder"}
\* absent, 0, a stored job, a job that is not stored
RelatedJobInputs == {None, Some(0), Some(1), Some(3)}
\* ids of rows that exist and one that never does
NotificationIdInputs == 1..(MaxNotifications + 1)

InitNotify ==
    /\ users = InitUsers
    /\ jobs = InitJobs
    /\ vendors = InitVendors
    /\ apps = <<>>
    /\ clock = 1
    /\ ret = NoRet
    /\ calls = <<IdleCall>>
    /\ notifications = <<>>

NextNotify ==
    \/ /\ ret = NoRet
       /\ \E userId \in NotifyUserInputs, type \in NotifyTypeInputs,
             relatedJobId \in RelatedJobInputs :
            createNotification(userId, type, <<"a">>, <<"b">>, relatedJobId, None)
    \/ /\ ret = NoRet
       /\ \E notificationId \in NotificationIdInputs :
            markNotificationAsRead(notificationId)
    \/ /\ ret = NoRet
       /\ \E userId \in NotifyUserInputs : markAllNotificationsAsRead(userId)
    \/ Discard
    \/ Tick

SpecNotify == InitNotify /\ [][NextNotify]_vars

-----------------------------------------------------------------------------
(* Properties *)

DuplicateError == "Application already exists for this job"
VendorError == "Vendor not found or inactive"
PathError == "Application path not allowed for this job"

\* an application row for the pair is stored
HasApplication(jobId, userId) ==
    \E i \in 1..Len(apps) : apps[i].job_id = jobId /\ apps[i].user_id = userId

\* the vendor id names a stored vendor that is active
IsActiveVendor(vendorId) ==
    vendorId \in DOMAIN vendors /\ vendors[vendorId].is_active

\* the path is one of the job's allowed paths
IsAllowedPath(jobId, path) ==
    path \in {jobs[jobId].allowed_application_paths[k] :
                k \in 1..Len(jobs[jobId].allowed_application_paths)}

\* the handler runs the call of caller p to its end in this step
Completes(p) == calls[p].pc = "selectJob" /\ calls'[p].pc = "done"

\* the call passes the job, candidate and vendor checks
PassesEntityChecks(input) ==
    /\ input.job_id \in DOMAIN jobs
    /\ input.user_id \in DOMAIN users
    /\ (TruthyNum(input.vendor_id) => IsActiveVendor(input.vendor_id[1]))

\* C1: when createJobApplication calls run one after another from an empty
\* table, the table never holds two rows with the same (job_id, user_id)
C1_AtMostOnePerPair ==
    \A i, j \in 1..Len(apps) :
        (apps[i].job_id = apps[j].job_id /\ apps[i].user_id = apps[j].user_id)
            => i = j

\* two applications are stored and a further call for a stored pair was rejected
C1_Witness ==
    /\ Len(apps) = 2
    /\ calls[1].pc = "done"
    /\ calls[1].result = DuplicateError
    /\ HasApplication(calls[1].input[1].job_id, calls[1].input[1].user_id)

\* C2: nothing at the insert rejects a duplicate: the insert statement of a
\* call that passed the duplicate check always adds its row, whatever rows
\* the table holds by then, so two overlapping calls for one pair that both
\* passed the check leave two rows for the pair
C2_InsertNeverRejects ==
    [][\A p \in Procs :
          (calls[p].pc = "insert" /\ calls'[p].pc # "insert")
            => /\ calls'[p].result = "ok"
               /\ Len(apps') = Len(apps) + 1
               /\ apps'[Len(apps')].job_id = calls[p].input[1].job_id
               /\ apps'[Len(apps')].user_id = calls[p].input[1].user_id]_vars

\* two overlapping calls for one pair have both succeeded and the table holds
\* two rows for that pair
C2_Witness ==
    \E p, q \in Procs :
        /\ p # q
        /\ calls[p].pc = "done" /\ calls[p].result = "ok"
        /\ calls[q].pc = "done" /\ calls[q].result = "ok"
        /\ calls[p].input[1].job_id = calls[q].input[1].job_id
        /\ calls[p].input[1].user_id = calls[q].input[1].user_id
        /\ Cardinality({i \in 1..Len(apps) :
                /\ apps[i].job_id = calls[p].input[1].job_id
                /\ apps[i].user_id = calls[p].input[1].user_id}) = 2

\* C3 as stated: once an application for (job_id, user_id) is stored, every
\* call with that pair fails with the duplicate error, whatever its other fields
C3_AlwaysDuplicateError ==
    [][\A p \in DOMAIN calls :
          ( /\ Completes(p)
            /\ HasApplication(calls[p].input[1].job_id, calls[p].input[1].user_id) )
            => calls'[p].result = DuplicateError]_vars

\* C3 amended: once an application for (job_id, user_id) is stored, every call
\* with that pair fails and stores nothing; with the vendor error if it
\* supplies a non-zero vendor_id that is not an active vendor, and with the
\* duplicate error in every other case, whatever its path, consent and other
\* fields
C3_DuplicateUnlessVendorFails ==
    [][\A p \in DOMAIN calls :
          ( /\ Completes(p)
            /\ HasApplication(calls[p].input[1].job_id, calls[p].input[1].user_id) )
            => /\ apps' = apps
               /\ calls'[p].result =
                    IF /\ IsSome(calls[p].input[1].vendor_id)
                       /\ calls[p].input[1].vendor_id[1] # 0
                       /\ ~IsActiveVendor(calls[p].input[1].vendor_id[1])
                    THEN VendorError
                    ELSE DuplicateError]_vars

\* a call for a stored pair that differs from the stored application in its
\* path, consent and other fields was rejected as a duplicate
C3_Witness ==
    /\ calls[1].pc = "done"
    /\ calls[1].result = DuplicateError
    /\ \E i \in 1..Len(apps) :
        /\ apps[i].job_id = calls[1].input[1].job_id
        /\ apps[i].user_id = calls[1].input[1].user_id
        /\ apps[i].application_path # calls[1].input[1].application_path
        /\ apps[i].consent_given # calls[1].input[1].consent_given
        /\ apps[i].cover_letter # calls[1].input[1].cover_letter

\* C4: a call succeeds only if its path is one of the job's allowed paths at
\* the time of the call, and a call that passes the job, candidate, vendor
\* and duplicate checks with a path that is not allowed fails with the path
\* error and stores nothing
C4_PathGate ==
    [][\A p \in DOMAIN calls :
          Completes(p)
            => /\ calls'[p].result = "ok"
                    => IsAllowedPath(calls[p].input[1].job_id,
                                     calls[p].input[1].application_path)
               /\ ( /\ PassesEntityChecks(calls[p].input[1])
                    /\ ~HasApplication(calls[p].input[1].job_id,
                                       calls[p].input[1].user_id)
                    /\ ~IsAllowedPath(calls[p].input[1].job_id,
                                      calls[p].input[1].application_path) )
                    => /\ calls'[p].result = PathError
                       /\ apps' = apps]_vars

\* a call that passed the earlier checks with a path its job does not allow
\* was rejected with the path error, while the job holds an application made
\* over an allowed path
C4_Witness ==
    /\ calls[1].pc = "done"
    /\ calls[1].result = PathError
    /\ ~IsAllowedPath(calls[1].input[1].job_id, calls[1].input[1].application_path)
    /\ \E i \in 1..Len(apps) : apps[i].job_id = calls[1].input[1].job_id

\* C5: a stored application has a vendor_id, naming an active vendor, if and
\* only if its application_path is 'vendor'
C5_VendorIffVendorPath ==
    \A i \in 1..Len(apps) :
        (IsSome(apps[i].vendor_id) /\ IsActiveVendor(apps[i].vendor_id[1]))
            <=> apps[i].application_path = "vendor"

\* the admission conditions of a call that fail in the current state
C6_FailingChecks(input) ==
    { c \in {"job", "user", "vendor", "duplicate", "path"} :
        \/ c = "job" /\ input.job_id \notin DOMAIN jobs
        \/ c = "user" /\ input.user_id \notin DOMAIN users
        \/ c = "vendor" /\ IsSome(input.vendor_id)
                        /\ ~IsActiveVendor(input.vendor_id[1])
        \/ c = "duplicate" /\ HasApplication(input.job_id, input.user_id)
        \/ c = "path" /\ input.job_id \in DOMAIN jobs
                      /\ ~IsAllowedPath(input.job_id, input.application_path) }

\* the failure the fixed order of checks reports for a call: job, candidate,
\* supplied vendor, duplicate, path
C6_FirstFailure(input) ==
    IF "job" \in C6_FailingChecks(input) THEN "Job not found"
    ELSE IF "user" \in C6_FailingChecks(input) THEN "User not found"
    ELSE IF "vendor" \in C6_FailingChecks(input) THEN VendorError
    ELSE IF "duplicate" \in C6_FailingChecks(input) THEN DuplicateError
    ELSE IF "path" \in C6_FailingChecks(input) THEN PathError
    ELSE "ok"

\* C6: a call of which several admission conditions fail at once fails with
\* the failure of the first failing check in the order job, candidate,
\* supplied vendor, duplicate, path
C6_FirstFailingCheckReported ==
    [][\A p \in DOMAIN calls :
          ( /\ Completes(p)
            /\ Cardinality(C6_FailingChecks(calls[p].input[1])) >= 2 )
            => calls'[p].result = C6_FirstFailure(calls[p].input[1])]_vars

\* C7: a call either fails and leaves the four tables as they were, or
\* succeeds and appends exactly one row, with status 'pending' and the call's
\* (job_id, user_id), leaving every other row and table unchanged
C7_AtomicAcceptReject ==
    [][ /\ users' = users
        /\ jobs' = jobs
        /\ vendors' = vendors
        /\ \A p \in DOMAIN calls :
            Completes(p)
              => IF calls'[p].result = "ok"
                 THEN /\ Len(apps') = Len(apps) + 1
                      /\ SubSeq(apps', 1, Len(apps)) = apps
                      /\ apps'[Len(apps')].status = "pending"
                      /\ apps'[Len(apps')].job_id = calls[p].input[1].job_id
                      /\ apps'[Len(apps')].user_id = calls[p].input[1].user_id
                      /\ calls'[p].application = Some(apps'[Len(apps')])
                 ELSE apps' = apps ]_vars

\* a call succeeded on a table that already held a row, and that row is intact
C7_Witness ==
    /\ Len(apps) = 2
    /\ calls[1].pc = "done"
    /\ calls[1].result = "ok"
    /\ calls[1].application = Some(apps[2])
    /\ apps[1].status = "pending"

\* C8: every stored application has a consent_timestamp if and only if its
\* consent_given is true, and no step changes the consent_given or the
\* consent_timestamp of a stored application
C8_ConsentCapturedOnce ==
    [][ /\ \A i \in 1..Len(apps') :
                IsSome(apps'[i].consent_timestamp) <=> apps'[i].consent_given
        /\ Len(apps') >= Len(apps)
        /\ \A i \in 1..Len(apps) :
                /\ apps'[i].consent_given = apps[i].consent_given
                /\ apps'[i].consent_timestamp = apps[i].consent_timestamp ]_vars

\* an application with consent and one without have both had their status
\* updated after the clock moved on from the consent timestamp
C8_Witness ==
    \E i, j \in 1..Len(apps) :
        /\ apps[i].consent_given /\ ~apps[j].consent_given
        /\ apps[i].status # "pending" /\ apps[j].status # "pending"
        /\ apps[i].last_updated # apps[i].consent_timestamp
        /\ ret.op = "bulkUpdateApplicationStatus"

\* C9: calculateEligibilityScore returns a value in [0,100], and 0 whenever
\* the candidate or the job does not exist
C9_EligibilityRange ==
    ret.op = "calculateEligibilityScore"
        => /\ ret.result >= 0
           /\ ret.result <= 100
           /\ (ret.value[1] \notin DOMAIN users \/ ret.value[2] \notin DOMAIN jobs)
                => ret.result = 0

\* the score of an experienced candidate with a resume for a missing job is 0
C9_Witness ==
    /\ ret.op = "calculateEligibilityScore"
    /\ ret.value[1] \in DOMAIN users
    /\ ret.value[2] \notin DOMAIN jobs
    /\ users[ret.value[1]].experience_years = Some(5)
    /\ TruthyStr(users[ret.value[1]].resume_url)
    /\ ret.result = 0

\* 30 for experience_years >= 5, 20 for >= 2, 10 for >= 1, 0 otherwise and for null
C10_ExperienceBand(years) ==
    IF IsNull(years) THEN 0
    ELSE IF years[1] >= 5 THEN 30
    ELSE IF years[1] >= 2 THEN 20
    ELSE IF years[1] >= 1 THEN 10
    ELSE 0

\* resume 3 + linkedin 2 + portfolio 2 + non-empty skills 3
C10_RichnessBonus(user) ==
      (IF TruthyStr(user.resume_url) THEN 3 ELSE 0)
    + (IF TruthyStr(user.linkedin_url) THEN 2 ELSE 0)
    + (IF TruthyStr(user.portfolio_url) THEN 2 ELSE 0)
    + (IF IsSome(user.skills) /\ Len(user.skills[1]) >= 1 THEN 3 ELSE 0)

\* round(0.4 * p): the integer r with r - 1/2 <= 0.4 * p < r + 1/2
C10_RoundedSkills(p) ==
    CHOOSE r \in 0..40 :
        /\ 20 * p.den * r - 10 * p.den <= 8 * p.num
        /\ 8 * p.num < 20 * p.den * r + 10 * p.den

\* C10: for an existing candidate and job the score is location fit +
\* experience band + round(0.4 * skills percentage) + richness bonus, and
\* that sum lies in [0,100], so the final clamp changes nothing
C10_ScoreIsSumOfParts ==
    ( /\ ret.op = "calculateEligibilityScore"
      /\ ret.value[1] \in DOMAIN users
      /\ ret.value[2] \in DOMAIN jobs )
        => LET user == users[ret.value[1]]
               job == jobs[ret.value[2]]
               sum ==   LocationPoints(user, job)
                      + C10_ExperienceBand(user.experience_years)
                      + C10_RoundedSkills(calculateSkillsMatch(ret.value[1], ret.value[2]))
                      + C10_RichnessBonus(user)
           IN  /\ ret.result = sum
               /\ sum >= 0
               /\ sum <= 100

\* a candidate and a job with every part at its maximum score exactly 100
C10_Witness ==
    /\ ret.op = "calculateEligibilityScore"
    /\ ret.value[1] \in DOMAIN users
    /\ ret.value[2] \in DOMAIN jobs
    /\ ret.result = 100

\* x occurs in y, case-insensitively
C11_OccursIn(x, y) == includes(toLowerCase(y), toLowerCase(x))

\* the location fit as stated, "a substring match of" read as occurs-in with
\* the candidate's text inside the job's (candidateInJob) or the job's text
\* inside the candidate's
C11_LocationFit(user, job, candidateInJob) ==
    LET Matches(text) == IF candidateInJob THEN C11_OccursIn(text, job.location)
                         ELSE C11_OccursIn(job.location, text)
        preferred == OrEmpty(user.preferred_locations)
    IN  IF job.remote_allowed THEN 20
        ELSE IF TruthyStr(user.location) /\ Matches(user.location[1]) THEN 20
        ELSE IF \E i \in 1..Len(preferred) : Matches(preferred[i]) THEN 15
        ELSE 0

\* the eligibility score with the location part replaced by the stated fit
C11_ScoreWith(userId, jobId, candidateInJob) ==
    ClampInt(  C11_LocationFit(users[userId], jobs[jobId], candidateInJob)
             + ExperiencePoints(users[userId])
             + SkillsPoints(userId, jobId)
             + CompletenessBonus(users[userId]))

\* C11: the location part of the eligibility score is 20 for a remote job,
\* else 20 if the candidate's location substring-matches the job's location,
\* else 15 if a preferred location substring-matches it, else 0; and it is 0
\* for a candidate with no location and no preferred locations on a
\* non-remote job. The score returned agrees with the stated fit under one of
\* the two directions of the substring match.
C11_LocationFitAsStated ==
    ( /\ ret.op = "calculateEligibilityScore"
      /\ ret.value[1] \in DOMAIN users
      /\ ret.value[2] \in DOMAIN jobs )
        => /\ \/ ret.result = C11_ScoreWith(ret.value[1], ret.value[2], TRUE)
              \/ ret.result = C11_ScoreWith(ret.value[1], ret.value[2], FALSE)
           /\ ( /\ ~jobs[ret.value[2]].remote_allowed
                /\ ~TruthyStr(users[ret.value[1]].location)
                /\ Len(OrEmpty(users[ret.value[1]].preferred_locations)) = 0 )
                => ret.result = ClampInt(  ExperiencePoints(users[ret.value[1]])
                                         + SkillsPoints(ret.value[1], ret.value[2])
                                         + CompletenessBonus(users[ret.value[1]]))

\* the listed weights of the populated fields of a profile
C12_Weights(user) ==
      (IF user.first_name # <<>> /\ user.last_name # <<>> THEN 10 ELSE 0)
    + (IF user.email # <<>> THEN 10 ELSE 0)
    + (IF user.phone \notin {None, Some(<<>>)} THEN 10 ELSE 0)
    + (IF user.resume_url \notin {None, Some(<<>>)} THEN 20 ELSE 0)
    + (IF user.experience_years # None THEN 10 ELSE 0)
    + (IF user.location \notin {None, Some(<<>>)} THEN 10 ELSE 0)
    + (IF user.skills \notin {None, Some(<<>>)} THEN 10 ELSE 0)
    + (IF user.preferred_locations \notin {None, Some(<<>>)} THEN 5 ELSE 0)
    + (IF user.linkedin_url \notin {None, Some(<<>>)} THEN 5 ELSE 0)
    + (IF user.portfolio_url \notin {None, Some(<<>>)} THEN 5 ELSE 0)

\* every tracked field of the profile is populated
C12_FullyPopulated(user) == C12_Weights(user) = 95

\* C12: calculateReadinessScore of an existing candidate is the sum of the
\* listed weights of the populated fields (empty strings absent, experience 0
\* set), lies in [0,95], is 0 for a candidate that does not exist, is never
\* lowered by populating one more field, and is strictly higher for a fully
\* populated profile than for the same profile missing one field
C12_ReadinessIsSumOfWeights ==
    ret.op = "calculateReadinessScore"
        => /\ ret.value[1] \notin DOMAIN users => ret.result = 0
           /\ ret.value[1] \in DOMAIN users
                => /\ ret.result = C12_Weights(users[ret.value[1]])
                   /\ ret.result >= 0
                   /\ ret.result <= 95
           /\ calculateReadinessScore(1) <= calculateReadinessScore(2)
           /\ (C12_FullyPopulated(users[2]) /\ users[1] # users[2])
                => calculateReadinessScore(1) < calculateReadinessScore(2)

\* the score of a fully populated profile, 95, was returned while the other
\* stored profile is the same one without its resume
C12_Witness ==
    /\ ret.op = "calculateReadinessScore"
    /\ ret.value = <<2>>
    /\ ret.result = 95
    /\ users[1] = [users[2] EXCEPT !.resume_url = Some(<<>>)]
    /\ calculateReadinessScore(1) = 75

\* the skill, lower-cased and trimmed, is a substring of the lower-cased
\* requirements and description text; the empty string is a substring of any text
C13_SkillMatched(skill, job) ==
    LET text == toLowerCase(job.requirements \o <<" ">> \o job.description)
        form == trim(toLowerCase(skill))
    IN  \/ form = <<>>
        \/ \E i \in 1..Len(text) : \E j \in i..Len(text) : SubSeq(text, i, j) = form

\* the number of the candidate's skills that are matched
C13_Matched(user, job) ==
    Cardinality({i \in 1..Len(OrEmpty(user.skills)) :
                    C13_SkillMatched(OrEmpty(user.skills)[i], job)})

\* C13: for an existing candidate and job the skills-match percentage is 0
\* for a candidate with zero skills, lies in [0,100], equals
\* 100 * (matched / total skills), and for a candidate with skills is 100 if
\* and only if every skill is matched
C13_SkillsMatchAsStated ==
    ( /\ ret.op = "calculateSkillsMatch"
      /\ ret.value[1] \in DOMAIN users
      /\ ret.value[2] \in DOMAIN jobs )
        => LET user == users[ret.value[1]]
               job == jobs[ret.value[2]]
               total == Len(OrEmpty(user.skills))
           IN  /\ FracLE(Frac(0, 1), ret.result)
               /\ FracLE(ret.result, Frac(100, 1))
               /\ total = 0 => FracEq(ret.result, Frac(0, 1))
               /\ total > 0
                    => /\ FracEq(ret.result, Frac(100 * C13_Matched(user, job), total))
                       /\ FracEq(ret.result, Frac(100, 1))
                            <=> C13_Matched(user, job) = total

\* the jobs the last query returned
C14_Returned ==
    IF ret.op = "searchJobs" THEN ret.result.jobs
    ELSE IF ret.op \in {"getRecommendedJobs", "getJobRequisitions"} THEN ret.result
    ELSE <<>>

\* C14: every job returned by searchJobs, getRecommendedJobs and
\* getJobRequisitions has status active and visibility_level public, whatever
\* the criteria, page, limit and candidate profile
C14_OnlyActivePublic ==
    \A k \in 1..Len(C14_Returned) :
        /\ jobs[C14_Returned[k]].status = "active"
        /\ jobs[C14_Returned[k]].visibility_level = "public"

\* a search without criteria returned jobs while the store holds an archived
\* job and a private job that are published later than the jobs returned
C14_Witness ==
    /\ ret.op = "searchJobs"
    /\ Len(ret.result.jobs) = 2
    /\ \E id \in DOMAIN jobs : jobs[id].status = "archived"
    /\ \E id \in DOMAIN jobs : jobs[id].visibility_level = "private"
    /\ IsNull(ret.value.keywords) /\ IsNull(ret.value.organization_id)

\* the smaller of two numbers
C15_Min(a, b) == IF a < b THEN a ELSE b

\* C15: for searchJobs with page p >= 1 and limit L >= 1 over a store with N
\* jobs matching the criteria, total = N, the number of jobs returned is
\* min(L, max(0, N - (p-1)*L)), and hasMore is true exactly when
\* (p-1)*L + returned < N, that is when p*L < N; with no matching job the
\* result is jobs = [], total = 0, hasMore = false
C15_Pagination ==
    ( /\ ret.op = "searchJobs"
      /\ ret.value.page >= 1
      /\ ret.value.limit >= 1 )
        => LET p == ret.value.page
               L == ret.value.limit
               N == Cardinality({id \in DOMAIN jobs : SearchCondition(ret.value, id)})
               rest == IF N - (p - 1) * L > 0 THEN N - (p - 1) * L ELSE 0
           IN  /\ ret.result.total = N
               /\ Len(ret.result.jobs) = C15_Min(L, rest)
               /\ ret.result.hasMore <=> ((p - 1) * L + Len(ret.result.jobs) < N)
               /\ ret.result.hasMore <=> (p * L < N)
               /\ ret.result.page = p
               /\ ret.result.limit = L
               /\ N = 0 => /\ ret.result.jobs = <<>>
                           /\ ret.result.total = 0
                           /\ ~ret.result.hasMore

\* the second page of one job each, of four matching jobs, holds one job and
\* more follow
C15_Witness ==
    /\ ret.op = "searchJobs"
    /\ ret.value.page = 2
    /\ ret.value.limit = 1
    /\ ret.result.total = 4
    /\ Len(ret.result.jobs) = 1
    /\ ret.result.hasMore

\* the value occurs in the text as a contiguous run, case-insensitively
C16_Substring(value, text) ==
    \/ Len(value) = 0
    \/ \E i \in 1..Len(text) : \E j \in i..Len(text) :
            toLowerCase(SubSeq(text, i, j)) = toLowerCase(value)

\* the job satisfies every criterion the input supplies
C16_Satisfies(input, job) ==
    /\ IsSome(input.keywords)
        => \/ C16_Substring(input.keywords[1], job.title)
           \/ C16_Substring(input.keywords[1], job.description)
           \/ C16_Substring(input.keywords[1], job.requirements)
           \/ C16_Substring(input.keywords[1], job.responsibilities)
    /\ IsSome(input.location) => C16_Substring(input.location[1], job.location)
    /\ IsSome(input.remote_allowed) => job.remote_allowed = input.remote_allowed[1]
    /\ IsSome(input.employment_types)
        => \E k \in 1..Len(input.employment_types[1]) :
                input.employment_types[1][k] = job.employment_type
    /\ IsSome(input.salary_min)
        => (job.salary_max # None /\ job.salary_max[1] >= input.salary_min[1])
    /\ IsSome(input.salary_max)
        => (job.salary_min # None /\ job.salary_min[1] <= input.salary_max[1])
    /\ IsSome(input.organization_id)
        => job.organization_id = input.organization_id[1]
    /\ IsSome(input.skills)
        => \E k \in 1..Len(input.skills[1]) :
                C16_Substring(input.skills[1][k], job.requirements)

\* C16: the jobs searchJobs counts in total are exactly the active public
\* jobs that satisfy every supplied criterion, and a criterion that is not
\* supplied excludes no job
C16_ConjunctionOfSupplied ==
    ret.op = "searchJobs"
        => ret.result.total =
                Cardinality({id \in DOMAIN jobs :
                    /\ jobs[id].status = "active"
                    /\ jobs[id].visibility_level = "public"
                    /\ C16_Satisfies(ret.value, jobs[id])})

\* C17: with a salary_min criterion, 0 included, searchJobs returns a job
\* only if its salary_max is set and >= the value; with a salary_max
\* criterion it returns a job only if its salary_min is set and <= the value;
\* a job whose relevant bound is unset is never returned
C17_SalaryBounds ==
    ret.op = "searchJobs"
        => \A k \in 1..Len(ret.result.jobs) :
            LET job == jobs[ret.result.jobs[k]]
            IN  /\ ret.value.salary_min # None
                    => /\ job.salary_max # None
                       /\ job.salary_max[1] >= ret.value.salary_min[1]
                /\ ret.value.salary_max # None
                    => /\ job.salary_min # None
                       /\ job.salary_min[1] <= ret.value.salary_max[1]

\* a search with salary_min 0 and nothing else returned a job with a maximum
\* and counted two jobs, while two active public jobs have no maximum
C17_Witness ==
    /\ ret.op = "searchJobs"
    /\ ret.value.salary_min = Some(0)
    /\ ret.value.salary_max = None
    /\ Len(ret.result.jobs) >= 1
    /\ ret.result.total = 2
    /\ Cardinality({id \in DOMAIN jobs : /\ ActivePublic(jobs[id])
                                         /\ jobs[id].salary_max = None}) = 2

\* the employment type of every returned job is one of the supplied types
C18_TypesAmongSupplied ==
    \A k \in 1..Len(ret.result.jobs) :
        \E t \in 1..Len(ret.value.employment_types[1]) :
            ret.value.employment_types[1][t] = jobs[ret.result.jobs[k]].employment_type

C19_Applied(userId, jobId) ==
    \E i \in 1..Len(apps) : apps[i].user_id = userId /\ apps[i].job_id = jobId

\* C19: getRecommendedJobs(candidate) never returns a job for which an
\* application by that candidate exists, whichever filter branch is active
\* and whether or not the job matches the candidate's skills or locations
C19_NeverRecommendsApplied ==
    ret.op = "getRecommendedJobs"
        => \A k \in 1..Len(ret.result) : ~C19_Applied(ret.value[1], ret.result[k])

\* the candidate with skill "a" has applied for job 1, which requires "a",
\* another candidate has applied for job 4, which requires "a" too, and the
\* first candidate is recommended job 4 alone
C19_Witness ==
    /\ ret.op = "getRecommendedJobs"
    /\ ret.value = <<1, 10>>
    /\ ret.result = <<4>>
    /\ C19_Applied(1, 1)
    /\ RecommendationCondition(users[1], jobs[1])
    /\ C19_Applied(2, 4)

\* the four filters, in priority order: skills, preferred locations, current
\* location, remote allowed
C20_Filters(userProfile, job) ==
    << ilikeAny(job.requirements, OrEmpty(userProfile.skills)),
       ilikeAny(job.location, OrEmpty(userProfile.preferred_locations)),
       userProfile.location # None /\ ilike(job.location, userProfile.location[1]),
       job.remote_allowed >>

\* which of the four filters the profile selects; a location is set when it
\* is a non-empty string
C20_Selected(userProfile) ==
    IF userProfile.skills # None /\ Len(userProfile.skills[1]) >= 1 THEN 1
    ELSE IF userProfile.preferred_locations # None
            /\ Len(userProfile.preferred_locations[1]) >= 1 THEN 2
    ELSE IF userProfile.location # None /\ userProfile.location[1] # <<>> THEN 3
    ELSE 4

\* the active public jobs the candidate has not applied for that pass the
\* filter of that number and no other test
C20_PassingOnly(userId, n) ==
    {id \in DOMAIN jobs :
        /\ jobs[id].status = "active"
        /\ jobs[id].visibility_level = "public"
        /\ \A i \in 1..Len(apps) :
                ~(apps[i].user_id = userId /\ apps[i].job_id = id)
        /\ C20_Filters(users[userId], jobs[id])[n]}

\* C20: for every existing candidate getRecommendedJobs applies exactly one
\* of four filters, chosen by strict priority (skills, else preferred
\* locations, else current location, else remote allowed): what it returns
\* is the first `limit` of the jobs passing the selected filter alone
C20_ExactlyOneFilterByPriority ==
    (ret.op = "getRecommendedJobs" /\ ret.value[1] \in DOMAIN users)
        => LET passing == C20_PassingOnly(ret.value[1],
                                          C20_Selected(users[ret.value[1]]))
           IN  /\ Len(ret.result) = C15_Min(ret.value[2], Cardinality(passing))
               /\ \A k \in 1..Len(ret.result) : ret.result[k] \in passing
               /\ \A k, l \in 1..Len(ret.result) : k # l => ret.result[k] # ret.result[l]

\* a candidate with a skill, a preferred location and a location is
\* recommended a job that requires the skill and lies outside the preferred
\* location, and not the job in the preferred location that does not require
\* the skill
C20_Witness ==
    /\ ret.op = "getRecommendedJobs"
    /\ ret.value = <<1, 10>>
    /\ ret.result = <<4, 1>>
    /\ C20_Filters(users[1], jobs[1]) = <<TRUE, FALSE, TRUE, FALSE>>
    /\ C20_Filters(users[1], jobs[2]) = <<FALSE, TRUE, FALSE, TRUE>>

\* the job exists, is a draft and has its four texts non-empty
C21_WellFormedDraft(id) ==
    /\ id \in DOMAIN jobs
    /\ jobs[id].status = "draft"
    /\ jobs[id].title # <<>>
    /\ jobs[id].description # <<>>
    /\ jobs[id].requirements # <<>>
    /\ jobs[id].responsibilities # <<>>

\* C21: publishJobRequisition(id) on an existing draft job whose title,
\* description, requirements and responsibilities are all non-empty sets
\* status = active and a non-null published_at and returns the job; in every
\* other case it returns null and leaves the job (and every job) unchanged
C21_PublishOnlyWellFormedDraft ==
    [][ (ret = NoRet /\ ret'.op = "publishJobRequisition")
            => IF C21_WellFormedDraft(ret'.value)
               THEN /\ jobs'[ret'.value].status = "active"
                    /\ jobs'[ret'.value].published_at # None
                    /\ ret'.result = Some(jobs'[ret'.value])
               ELSE /\ ret'.result = None
                    /\ jobs' = jobs ]_vars

\* a publish of a job that an earlier publish made active returned null
C21_Witness ==
    /\ ret.op = "publishJobRequisition"
    /\ ret.value = 1
    /\ ret.result = None
    /\ jobs[1].status = "active"
    /\ jobs[1].published_at = Some(1)
    /\ jobs[1].updated_at = Some(1)
    /\ clock = MaxClock

\* C22: in every state reachable by updateJobRequisition and
\* publishJobRequisition calls on jobs created in status draft with
\* published_at null, a job with status = active has a non-null published_at
C22_ActiveImpliesPublished ==
    \A id \in DOMAIN jobs :
        jobs[id].status = "active" => jobs[id].published_at # None

\* the id is one of the ids of the list
C23_InIds(id, ids) == \E k \in 1..Len(ids) : ids[k] = id

\* the step is a bulkUpdateApplicationStatus call that changes something
C23_BulkStep ==
    /\ ret'.op = "bulkUpdateApplicationStatus"
    /\ calls' = calls
    /\ clock' = clock
    /\ <<apps, ret>>' # <<apps, ret>>

\* C23: bulkUpdateApplicationStatus(ids, s) treats each id independently:
\* every stored application whose id is in ids ends with status s, an id that
\* is not stored is skipped without failing the call or preventing the other
\* updates, every other application is unchanged, and the returned list holds
\* exactly the updated applications, each with status s; for the empty list
\* it returns an empty list and changes nothing
C23_BulkUpdatesEachIndependently ==
    [][ C23_BulkStep
            => LET ids == ret'.input[1]
                   s == ret'.input[2]
               IN  /\ ret'.result = "ok"
                   /\ Len(apps') = Len(apps)
                   /\ \A i \in 1..Len(apps) :
                        IF C23_InIds(apps[i].id, ids)
                        THEN apps'[i].status = s
                        ELSE apps'[i] = apps[i]
                   /\ {ret'.value[k] : k \in 1..Len(ret'.value)}
                        = {apps'[i] : i \in {j \in 1..Len(apps) :
                                                C23_InIds(apps[j].id, ids)}}
                   /\ \A k \in 1..Len(ret'.value) : ret'.value[k].status = s
                   /\ ids = <<>> => (ret'.value = <<>> /\ apps' = apps) ]_vars

\* a bulk update of an id that is not stored and of application 1 returned
\* application 1 alone, rejected, and left application 2 pending
C23_Witness ==
    /\ ret.op = "bulkUpdateApplicationStatus"
    /\ ret.input = << <<MaxApps + 1, 1>>, "rejected" >>
    /\ Len(apps) = 2
    /\ ret.result = "ok"
    /\ ret.value = <<apps[1]>>
    /\ apps[1].status = "rejected"
    /\ apps[2].status = "pending"

\* the step is an updateApplicationStatus call that changes something
C27_UpdateStep ==
    /\ ret'.op = "updateApplicationStatus"
    /\ calls' = calls
    /\ clock' = clock
    /\ <<apps, ret>>' # <<apps, ret>>

\* C27: updateApplicationStatus(id, s) returns null and changes nothing when
\* no application has that id; otherwise it sets the application's status to
\* s whatever its current status and changes only status and last_updated of
\* that application: its other fields and every other application are
\* unchanged
C27_UpdateChangesStatusOnly ==
    [][ C27_UpdateStep
            => LET id == ret'.input.id
                   s == ret'.input.status
               IN  IF \A i \in 1..Len(apps) : apps[i].id # id
                   THEN ret'.result = "null" /\ apps' = apps
                   ELSE /\ ret'.result = "ok"
                        /\ Len(apps') = Len(apps)
                        /\ \A i \in 1..Len(apps) :
                            IF apps[i].id = id
                            THEN /\ apps'[i].status = s
                                 /\ apps'[i] =
                                      [apps[i] EXCEPT
                                        !.status = s,
                                        !.last_updated = apps'[i].last_updated]
                            ELSE apps'[i] = apps[i] ]_vars

\* application 1 was moved to reviewing at a later time than it was made,
\* while application 2 stays rejected
C27_Witness ==
    /\ ret.op = "updateApplicationStatus"
    /\ ret.input = [id |-> 1, status |-> "reviewing"]
    /\ ret.result = "ok"
    /\ Len(apps) = 2
    /\ apps[1].status = "reviewing"
    /\ apps[1].applied_at = Some(1)
    /\ apps[1].last_updated = Some(MaxClock)
    /\ apps[2].status = "rejected"
    /\ apps[2].last_updated = Some(1)

\* a user with that email is stored
C24_EmailStored(email) == \E i \in 1..Len(users) : users[i].email = email

\* C24: no two users ever share the same email: a createUser call that
\* settles when its email is already stored fails and adds no user row, so
\* under any interleaving of concurrent createUser calls with the same email
\* at most one of them creates a row
C24_EmailsStayUnique ==
    [][ /\ \A i, j \in 1..Len(users') :
                users'[i].email = users'[j].email => i = j
        /\ \A p \in DOMAIN calls :
                (/\ calls[p].pc \in {"selectEmail", "insertUser"}
                 /\ calls'[p].pc = "done"
                 /\ C24_EmailStored(calls[p].input[1].email))
                    => (calls'[p].result # "ok" /\ users' = users) ]_vars

\* two calls with the same email both passed the email check; the first
\* created the row and the index rejected the second
C24_Witness ==
    /\ Len(users) = 1
    /\ calls[1].pc = "done" /\ calls[1].result = "ok"
    /\ calls[2].pc = "done"
    /\ calls[2].result = "duplicate key value violates unique constraint"
    /\ calls[1].input[1].email = calls[2].input[1].email
    /\ calls[1].input[1].first_name # calls[2].input[1].first_name

\* C25: publishJobRequisition moves a job to active only from draft: in
\* every interleaving of a publishJobRequisition call with concurrent
\* updateJobRequisition calls on the same job, the publish write never
\* changes a job whose status at the moment of the write is paused, closed,
\* archived or active
C25_PublishWritesOnlyDrafts ==
    [][ \A p \in DOMAIN calls :
            (calls[p].pc = "publishWrite" /\ calls'[p].pc = "done")
                => (jobs[calls[p].input[1]].status = "draft" \/ jobs' = jobs) ]_vars

\* the callers whose publishJobRequisition call on the job returned the job
C28_Published(id) ==
    {p \in DOMAIN calls : /\ calls[p].pc = "done"
                          /\ calls[p].input = Some(id)
                          /\ calls[p].result = "ok"}

\* C28: for a draft, complete job and no concurrent updateJobRequisition, at
\* most one of any number of concurrent publishJobRequisition calls on that
\* job returns the published job and published_at is written once; every
\* other call returns null
C28_OnePublishWins ==
    [][ /\ \A id \in DOMAIN jobs : Cardinality(C28_Published(id)') <= 1
        /\ \A p \in DOMAIN calls :
            (calls[p].pc = "publishWrite" /\ calls'[p].pc = "done")
                => jobs[calls[p].input[1]].published_at = None ]_vars

\* C26: in every reachable state, including states reached by
\* updateJobRequisition calls that change a job's allowed_application_paths
\* after applications were created, each application's application_path is a
\* member of its job's current allowed_application_paths
C26_PathAmongCurrentlyAllowed ==
    \A i \in 1..Len(apps) :
        \E k \in 1..Len(jobs[apps[i].job_id].allowed_application_paths) :
            jobs[apps[i].job_id].allowed_application_paths[k]
                = apps[i].application_path

\* the places (page, position) at which the job appears on the pages read
C29_Places(id) ==
    {pl \in (1..Len(ret.result)) \X (1..ret.value.limit) :
        /\ pl[2] <= Len(ret.result[pl[1]].jobs)
        /\ ret.result[pl[1]].jobs[pl[2]] = id}

\* C29: for a fixed store state and fixed criteria, the pages 1, 2, 3, ... of
\* searchJobs with the same limit partition the matching jobs: no job
\* appears on two pages and, once the last page is read, every matching job
\* has appeared on exactly one page, also when several matching jobs have
\* equal or null published_at
C29_PagesPartitionMatches ==
    ret.op = "searchPages"
        => \A id \in SearchMatches(ret.value) :
            /\ Cardinality(C29_Places(id)) <= 1
            /\ ~ret.result[Len(ret.result)].hasMore
                => Cardinality(C29_Places(id)) = 1

\* C30: after any sequence of createNotification, markNotificationAsRead and
\* markAllNotificationsAsRead calls, every notification has read = true if
\* and only if read_at is non-null, a notification once read never becomes
\* unread, and markAllNotificationsAsRead(u) changes only notifications of
\* user u that were unread
C30_ReadFlagsConsistent ==
    [][ /\ \A i \in 1..Len(notifications') :
                notifications'[i].read <=> notifications'[i].read_at # None
        /\ Len(notifications') >= Len(notifications)
        /\ \A i \in 1..Len(notifications) :
                notifications[i].read => notifications'[i].read
        /\ (ret = NoRet /\ ret'.op = "markAllNotificationsAsRead")
            => \A i \in 1..Len(notifications) :
                (notifications[i].user_id # ret'.value \/ notifications[i].read)
                    => notifications'[i] = notifications[i] ]_vars

\* markAllNotificationsAsRead(1) at a later time read the second notification
\* of user 1, kept the read_at of the first, read earlier, and left the
\* notification of user 2 unread
C30_Witness ==
    /\ ret.op = "markAllNotificationsAsRead"
    /\ ret.value = 1
    /\ Len(notifications) = 3
    /\ notifications[1].user_id = 1 /\ notifications[1].read_at = Some(1)
    /\ notifications[2].user_id = 1 /\ notifications[2].read_at = Some(MaxClock)
    /\ notifications[2].sent_at = Some(1)
    /\ notifications[3].user_id = 2 /\ ~notifications[3].read
    /\ notifications[3].read_at = None

====
